---- MODULE Spec2Model ----
(***************************************************************************)
(* Model of the protocol execution engine of oidc-cli: the token request   *)
(* transport (httpclient), the response classifiers, the device polling    *)
(* loop and the flow orchestrators (oidc).                                 *)
(***************************************************************************)
EXTENDS Integers, Sequences, FiniteSets, TLC

VARIABLES
    flow,          \* which orchestrator's Run is executing
    cfg,           \* oidc.Config / FlowConfig fields the flows read
    pc,            \* position of Run
    ctxCancelled,  \* the caller's context has been cancelled
    headers,       \* headers map built by setupDPoPHeaders
    proofs,        \* calls made to crypto.NewDPoPProof, in order
    trace,         \* outgoing requests and waits, in order
    interval,      \* local variable interval of ExecutePollingTokenRequest
    startInterval, \* the interval argument ExecutePollingTokenRequest was called with
    tokenReq,      \* the *TokenRequest of the flow
    devResp,       \* the parsed DeviceAuthorizationResponse
    browser,       \* what happened at the browser launcher
    pollRet,       \* what ExecutePollingTokenRequest returned
    runErr,        \* what Run returned
    pStatus,       \* classifier input: HTTP status
    pBody,         \* classifier input: body
    pTok,          \* result of ParseTokenResponse on (pStatus, pBody)
    pDev,          \* result of ParseDeviceAuthorizationResponse on (pStatus, pBody)
    builder,       \* which Create*Request builder made the request under test
    bInput,        \* the arguments the builder was called with
    built,         \* the *TokenRequest the builder returned, as it is now
    sent,          \* what ExecuteTokenRequest handed to PostForm, call by call
    vReq,          \* the *AuthorizationCodeRequest of the attempt
    vResp,         \* the *webflow.CallbackResponse of the attempt
    vOut,          \* what ValidateResponse returned
    aPc,           \* position of ExecuteAuthorizationCodeRequest
    callback,      \* the callback argument of ExecuteAuthorizationCodeRequest
    authEndpoint,  \* the endpoint argument of ExecuteAuthorizationCodeRequest
    listener,      \* state of the goroutine running callbackServer.Start
    serverErrChan, \* contents of the buffered channel serverErrChan
    timers,        \* which timers of StartServer's select have fired
    startRet,      \* what StartServer returned
    calls,         \* calls made to the AuthFlowDependencies, in order
    authRet,       \* what ExecuteAuthorizationCodeRequest returned
    authURL,       \* what BuildAuthorizationURL returned
    fCmd,          \* the command whose flags are parsed
    fArgs,         \* the flag values after flags.Parse
    fRet,          \* what the command's flag parser returned
    rPc,           \* position of RunCommand
    signalChan,    \* the channel signalChan of RunCommand
    watcher,       \* position of the goroutine that receives from signalChan
    rLog,          \* what RunCommand and its goroutine logged, in order
    rCancels,      \* who called cancel, in order
    rExit,         \* what command.Run returned and the exit code of RunCommand
    rSignals,      \* the signals the process was sent, in order
    rSteps,        \* the calls RunCommand made, each with what it returned
    uEndpoint,     \* the endpoint handed to CreateAuthorizationCodeRequestURL
    uValues,       \* the values handed to it
    uRet           \* what it returned

flowVars == <<flow, cfg, pc, ctxCancelled, headers, proofs, trace, interval,
              startInterval, tokenReq, devResp, browser, pollRet, runErr>>

parseVars == <<pStatus, pBody, pTok, pDev>>

urlVars == <<uEndpoint, uValues, uRet>>

\* the variables of the functions called on their own
pureVars == <<parseVars, urlVars>>

reqVars == <<builder, bInput, built, sent>>

validateVars == <<vReq, vResp, vOut>>

authVars == <<aPc, callback, authEndpoint, listener, serverErrChan, timers, startRet,
              calls, authRet, authURL>>

flagVars == <<fCmd, fArgs, fRet>>

signalVars == <<rPc, signalChan, watcher, rLog, rCancels, rExit, rSignals, rSteps>>

\* the variables of the command line layer
cmdVars == <<flagVars, signalVars>>

\* the variables of the components checked on their own
sideVars == <<reqVars, validateVars, authVars, cmdVars>>

vars == <<flowVars, pureVars, reqVars, validateVars, authVars, cmdVars>>

-----------------------------------------------------------------------------
(* Bounds of the model *)

\* most token requests one polling session may issue
MaxAttempts == 3

-----------------------------------------------------------------------------
(* Program constants *)

\* default polling interval in seconds
DefaultInterval == 5

\* step added to the interval on slow_down
SlowDownStep == 5

TokenEndpoint == "https://as.example/token"

DeviceAuthorizationEndpoint == "https://as.example/device"

-----------------------------------------------------------------------------
(* JSON values and bodies *)

JsonKeys == {"error", "error_description", "access_token", "device_code",
             "user_code", "verification_uri", "verification_uri_complete",
             "expires_in", "interval"}

JAbsent == [t |-> "absent", s |-> "", n |-> 0]

JNull == [t |-> "null", s |-> "", n |-> 0]

JString(s) == [t |-> "string", s |-> s, n |-> 0]

\* a JSON number without fractional part
JNumber(n) == [t |-> "number", s |-> "", n |-> n]

\* a JSON number n + 0.5
JFraction(n) == [t |-> "fraction", s |-> "", n |-> n]

NoFields == [k \in JsonKeys |-> JAbsent]

\* a body holding a JSON object with the given members
JObject(f) == [kind |-> "object", fields |-> f]

\* a body that is not JSON at all, such as `invalid json`
JText == [kind |-> "text", fields |-> NoFields]

\* a body holding a JSON array
JArray == [kind |-> "array", fields |-> NoFields]

\* the body `null`
JNullBody == [kind |-> "null", fields |-> NoFields]

With(f, k, v) == [f EXCEPT ![k] = v]

-----------------------------------------------------------------------------
(* Response and its helpers *)

Response(status, body) == [transport |-> "ok", status |-> status, body |-> body]

\* PostForm returned an error instead of a response
TransportError(cause) == [transport |-> cause, status |-> 0, body |-> JText]

IsSuccess(resp) == resp.status >= 200 /\ resp.status < 300

\* json.Unmarshal(body, &map[string]interface{})
UnmarshalMap(body) ==
    CASE body.kind = "object" -> [ok |-> TRUE, m |-> body.fields]
      [] body.kind = "null"   -> [ok |-> TRUE, m |-> NoFields]
      [] OTHER                -> [ok |-> FALSE, m |-> NoFields]

\* decoding one member into a Go string field
StringFieldOK(v) == v.t \in {"absent", "null", "string"}

StringField(v) == IF v.t = "string" THEN v.s ELSE ""

\* decoding one member into a Go int field
IntFieldOK(v) == v.t \in {"absent", "null", "number"}

IntField(v) == IF v.t = "number" THEN v.n ELSE 0

DeviceAuthorizationResponse(f) ==
    [DeviceCode              |-> StringField(f["device_code"]),
     UserCode                |-> StringField(f["user_code"]),
     VerificationURI         |-> StringField(f["verification_uri"]),
     VerificationURIComplete |-> StringField(f["verification_uri_complete"]),
     ExpiresIn               |-> IntField(f["expires_in"]),
     Interval                |-> IntField(f["interval"])]

\* json.Unmarshal(body, &DeviceAuthorizationResponse{})
UnmarshalDeviceAuthorizationResponse(body) ==
    LET f == IF body.kind = "object" THEN body.fields ELSE NoFields
        typed == /\ \A k \in {"device_code", "user_code", "verification_uri",
                              "verification_uri_complete"} : StringFieldOK(f[k])
                 /\ \A k \in {"expires_in", "interval"} : IntFieldOK(f[k])
    IN  [ok |-> body.kind \in {"object", "null"} /\ typed,
         v  |-> DeviceAuthorizationResponse(f)]

-----------------------------------------------------------------------------
(* Classified results *)

NoData == NoFields

Classified(class, data, code, desc, status, raw) ==
    [class |-> class, data |-> data, code |-> code, desc |-> desc,
     status |-> status, raw |-> raw]

SuccessResult(data) == Classified("Success", data, "", "", 0, JText)

JSONParsingError == Classified("JSONParsingError", NoData, "", "", 0, JText)

\* the *Error value: status and raw body, with ErrorType and
\* ErrorDescription filled from the mapping when they are strings
OAuthError(m, status, raw) ==
    Classified("OAuthProtocolError", NoData, m["error"].s,
               StringField(m["error_description"]), status, raw)

HTTPFailure(status, raw) == Classified("HTTPFailure", NoData, "", "", status, raw)

WithData(r, data) == [r EXCEPT !.data = data]

\* faulty variant: tests that the error member is present, not that it is a string
ParseTokenResponseAnyError(resp) ==
    LET dec == UnmarshalMap(resp.body)
    IN  IF ~dec.ok THEN JSONParsingError
        ELSE IF ~IsSuccess(resp)
             THEN IF dec.m["error"].t # "absent"
                  THEN WithData(OAuthError(dec.m, resp.status, resp.body), dec.m)
                  ELSE WithData(HTTPFailure(resp.status, resp.body), dec.m)
             ELSE SuccessResult(dec.m)

ParseTokenResponse(resp) ==
    LET dec == UnmarshalMap(resp.body)
    IN  IF ~dec.ok THEN JSONParsingError
        ELSE IF ~IsSuccess(resp)
             THEN IF dec.m["error"].t = "string"
                  THEN WithData(OAuthError(dec.m, resp.status, resp.body), dec.m)
                  ELSE WithData(HTTPFailure(resp.status, resp.body), dec.m)
             ELSE SuccessResult(dec.m)

\* faulty variant: the decode error of a non-2xx body is dropped
ParseDeviceAuthorizationResponseNoDecodeCheck(resp) ==
    IF ~IsSuccess(resp)
    THEN LET dec == UnmarshalMap(resp.body)
         IN  IF dec.ok /\ dec.m["error"].t = "string"
             THEN [r |-> OAuthError(dec.m, resp.status, resp.body),
                   v |-> DeviceAuthorizationResponse(NoFields)]
             ELSE [r |-> HTTPFailure(resp.status, resp.body),
                   v |-> DeviceAuthorizationResponse(NoFields)]
    ELSE LET dec == UnmarshalDeviceAuthorizationResponse(resp.body)
         IN  IF ~dec.ok THEN [r |-> JSONParsingError, v |-> DeviceAuthorizationResponse(NoFields)]
             ELSE [r |-> SuccessResult(NoData), v |-> dec.v]

\* the result's v is the decoded DeviceAuthorizationResponse on success
ParseDeviceAuthorizationResponse(resp) ==
    IF ~IsSuccess(resp)
    THEN LET dec == UnmarshalMap(resp.body)
         IN  IF ~dec.ok THEN [r |-> JSONParsingError, v |-> DeviceAuthorizationResponse(NoFields)]
             ELSE IF dec.m["error"].t = "string"
                  THEN [r |-> OAuthError(dec.m, resp.status, resp.body),
                        v |-> DeviceAuthorizationResponse(NoFields)]
                  ELSE [r |-> HTTPFailure(resp.status, resp.body),
                        v |-> DeviceAuthorizationResponse(NoFields)]
    ELSE LET dec == UnmarshalDeviceAuthorizationResponse(resp.body)
         IN  IF ~dec.ok THEN [r |-> JSONParsingError, v |-> DeviceAuthorizationResponse(NoFields)]
             ELSE [r |-> SuccessResult(NoData), v |-> dec.v]

-----------------------------------------------------------------------------
(* Token requests *)

AuthMethodBasic == "client_secret_basic"

AuthMethodPost == "client_secret_post"

AuthMethodNone == "none"

AuthMethods == {AuthMethodBasic, AuthMethodPost, AuthMethodNone}

\* url.Values: a mapping from the keys present to their list of values
NoParams == [k \in {} |-> <<>>]

\* faulty variant: url.Values.Add, which appends to the key's list
ParamAdd(p, k, v) ==
    [x \in (DOMAIN p) \cup {k} |->
        IF x = k THEN (IF k \in DOMAIN p THEN Append(p[k], v) ELSE <<v>>) ELSE p[x]]

\* url.Values.Set: the key's list becomes the single value
ParamSet(p, k, v) == [x \in (DOMAIN p) \cup {k} |-> IF x = k THEN <<v>> ELSE p[x]]

TokenRequest(grant, id, secret, method, params) ==
    [GrantType |-> grant, ClientID |-> id, ClientSecret |-> secret,
     AuthMethod |-> method, Params |-> params]

\* base64.StdEncoding.EncodeToString of the bytes of the given pieces
Base64(pieces) == [b64 |-> pieces]

NoAuthorization == [scheme |-> "", cred |-> Base64(<<>>)]

BasicAuthorization(id, secret) == [scheme |-> "Basic", cred |-> Base64(<<id, ":", secret>>)]

\* value of a DPoP proof: what it was requested for, and which request of
\* the run made it
Proof(method, url, serial) == [method |-> method, url |-> url, serial |-> serial]

NoProof == Proof("", "", 0)

\* a headers map: the two headers the flows set
Headers(auth, dpop) == [Authorization |-> auth, DPoP |-> dpop]

NoHeaders == Headers(NoAuthorization, NoProof)

\* faulty variant: Post sends client_secret also when the secret is empty
ExecuteTokenRequestParamsAlwaysSecret(req) ==
    LET p1 == ParamSet(req.Params, "grant_type", req.GrantType)
    IN  CASE req.AuthMethod = AuthMethodPost ->
                ParamSet(ParamSet(p1, "client_id", req.ClientID),
                         "client_secret", req.ClientSecret)
          [] req.AuthMethod = AuthMethodNone -> ParamSet(p1, "client_id", req.ClientID)
          [] OTHER -> p1

\* faulty variant: the grant type is not written into the parameters
ExecuteTokenRequestParamsNoGrantType(req) ==
    LET p1 == req.Params
    IN  CASE req.AuthMethod = AuthMethodPost ->
                LET p2 == ParamSet(p1, "client_id", req.ClientID)
                IN  IF req.ClientSecret # ""
                    THEN ParamSet(p2, "client_secret", req.ClientSecret)
                    ELSE p2
          [] req.AuthMethod = AuthMethodNone -> ParamSet(p1, "client_id", req.ClientID)
          [] OTHER -> p1

\* faulty variant: the parameters are made afresh, without those of the builder
ExecuteTokenRequestParamsFresh(req) ==
    LET p1 == ParamSet(NoParams, "grant_type", req.GrantType)
    IN  CASE req.AuthMethod = AuthMethodPost ->
                LET p2 == ParamSet(p1, "client_id", req.ClientID)
                IN  IF req.ClientSecret # ""
                    THEN ParamSet(p2, "client_secret", req.ClientSecret)
                    ELSE p2
          [] req.AuthMethod = AuthMethodNone -> ParamSet(p1, "client_id", req.ClientID)
          [] OTHER -> p1

\* the parameters of req after ExecuteTokenRequest applied grant type and
\* auth method
ExecuteTokenRequestParams(req) ==
    LET p1 == ParamSet(req.Params, "grant_type", req.GrantType)
    IN  CASE req.AuthMethod = AuthMethodPost ->
                LET p2 == ParamSet(p1, "client_id", req.ClientID)
                IN  IF req.ClientSecret # ""
                    THEN ParamSet(p2, "client_secret", req.ClientSecret)
                    ELSE p2
          [] req.AuthMethod = AuthMethodNone -> ParamSet(p1, "client_id", req.ClientID)
          [] OTHER -> p1

\* the headers after ExecuteTokenRequest applied the auth method
ExecuteTokenRequestHeaders(req, hdrs) ==
    IF req.AuthMethod = AuthMethodBasic
    THEN [hdrs EXCEPT !.Authorization = BasicAuthorization(req.ClientID, req.ClientSecret)]
    ELSE hdrs

CreateRefreshTokenRequest(id, secret, method, refreshToken, scope) ==
    LET p1 == ParamSet(NoParams, "refresh_token", refreshToken)
        p2 == IF scope # "" THEN ParamSet(p1, "scope", scope) ELSE p1
    IN  TokenRequest("refresh_token", id, secret, method, p2)

\* faulty variant: an empty device code is left out like an optional parameter
CreateDeviceCodeTokenRequestOmitsEmpty(id, secret, method, deviceCode) ==
    TokenRequest("urn:ietf:params:oauth:grant-type:device_code", id, secret, method,
                 IF deviceCode # "" THEN ParamSet(NoParams, "device_code", deviceCode)
                 ELSE NoParams)

CreateDeviceCodeTokenRequest(id, secret, method, deviceCode) ==
    TokenRequest("urn:ietf:params:oauth:grant-type:device_code", id, secret, method,
                 ParamSet(NoParams, "device_code", deviceCode))

\* faulty variant: the parameter is set whatever its value
OptionalParamAlways(p, k, v) == ParamSet(p, k, v)

OptionalParam(p, k, v) == IF v # "" THEN ParamSet(p, k, v) ELSE p

CreateAuthCodeTokenRequest(id, secret, method, code, redirectURI, codeVerifier) ==
    LET p1 == ParamSet(NoParams, "code", code)
        p2 == ParamSet(p1, "redirect_uri", redirectURI)
        p3 == OptionalParam(p2, "code_verifier", codeVerifier)
    IN  TokenRequest("authorization_code", id, secret, method, p3)

CreateClientCredentialsRequest(id, secret, method, scope) ==
    TokenRequest("client_credentials", id, secret, method,
                 OptionalParam(NoParams, "scope", scope))

CreateTokenExchangeRequest(id, secret, method, input) ==
    LET p1 == ParamSet(NoParams, "subject_token", input.SubjectToken)
        p2 == ParamSet(p1, "subject_token_type", input.SubjectTokenType)
        p3 == OptionalParam(p2, "resource", input.Resource)
        p4 == OptionalParam(p3, "audience", input.Audience)
        p5 == OptionalParam(p4, "scope", input.Scope)
        p6 == OptionalParam(p5, "requested_token_type", input.RequestedTokenType)
        p7 == OptionalParam(p6, "actor_token", input.ActorToken)
        p8 == OptionalParam(p7, "actor_token_type", input.ActorTokenType)
    IN  TokenRequest("urn:ietf:params:oauth:grant-type:token-exchange", id, secret, method, p8)

\* the parameters ExecuteDeviceAuthorizationRequest posts
DeviceAuthorizationParams(req) ==
    LET p1 == ParamSet(NoParams, "client_id", req.ClientID)
        p2 == OptionalParam(p1, "scope", req.Scope)
        p3 == OptionalParam(p2, "code_challenge", req.CodeChallenge)
    IN  OptionalParam(p3, "code_challenge_method", req.CodeChallengeMethod)

-----------------------------------------------------------------------------
(* Inputs of the flows *)

ClientIDs == {"cid"}

ClientSecrets == {"", "sec"}

Configs ==
    [ClientID : ClientIDs, ClientSecret : ClientSecrets, AuthMethod : AuthMethods,
     DPoP : BOOLEAN, Scope : {"openid"}, RefreshToken : {"rt"}]

TokenExchangeInput ==
    [Resource |-> "", Audience |-> "aud", Scope |-> "", RequestedTokenType |-> "",
     SubjectToken |-> "st", SubjectTokenType |-> "stt", ActorToken |-> "",
     ActorTokenType |-> ""]

ObjectWith(k1, v1, k2, v2) == JObject(With(With(NoFields, k1, v1), k2, v2))

PendingBody == JObject(With(NoFields, "error", JString("authorization_pending")))

SlowDownBody == ObjectWith("error", JString("slow_down"), "error_description", JString("slow down"))

\* bodies the token endpoint answers with
TokenBodies ==
    {JText, JNullBody, PendingBody, SlowDownBody,
     ObjectWith("error", JString("access_denied"), "error_description", JString("denied")),
     ObjectWith("error", JNumber(1), "error_description", JString("denied")),
     JObject(With(NoFields, "access_token", JString("tok"))),
     JObject(NoFields)}

TokenStatuses == {200, 400, 503}

TokenResponses == {Response(st, b) : st \in TokenStatuses, b \in TokenBodies}

\* interval members of the device-authorization responses
IntervalMembers == {JAbsent, JNumber(-1), JNumber(0), JNumber(2), JString("5")}

DeviceGrantBodies ==
    {JObject([NoFields EXCEPT !["device_code"] = JString("dc"),
                              !["user_code"] = JString("uc"),
                              !["verification_uri"] = JString("https://as.example/verify"),
                              !["verification_uri_complete"] = c,
                              !["interval"] = i]) :
        c \in {JAbsent, JString("https://as.example/verify?uc")}, i \in IntervalMembers}

DeviceAuthorizationBodies ==
    DeviceGrantBodies \cup
    {JText, JObject(NoFields),
     ObjectWith("error", JString("invalid_request"), "error_description", JString("missing"))}

DeviceAuthorizationStatuses == {200, 400}

DeviceAuthorizationResponses ==
    {Response(st, b) : st \in DeviceAuthorizationStatuses, b \in DeviceAuthorizationBodies}

-----------------------------------------------------------------------------
(* Transport *)

\* what Client.PostForm can return for a call made under the given context
\* state: a cancelled context yields the context's error, otherwise the
\* server's response or a network failure
PostFormOutcomes(cancelled, responses) ==
    IF cancelled THEN {TransportError("canceled")}
    ELSE responses \cup {TransportError("network")}

\* errors.Is(err, context.Canceled) for a transport error
IsCanceled(resp) == resp.transport = "canceled"

InFlight == [transport |-> "pending", status |-> 0, body |-> JText]

NoResponse == [transport |-> "none", status |-> 0, body |-> JText]

RequestEvent(endpoint, hdrs, params) ==
    [kind |-> "request", endpoint |-> endpoint, headers |-> hdrs, params |-> params,
     resp |-> InFlight, dur |-> 0]

WaitEvent(dur) ==
    [kind |-> "wait", endpoint |-> "", headers |-> NoHeaders, params |-> NoParams,
     resp |-> NoResponse, dur |-> dur]

\* the trace with the response of its last request filled in
Answered(tr, resp) == [tr EXCEPT ![Len(tr)].resp = resp]

RequestsTo(tr, endpoint) ==
    {i \in 1..Len(tr) : tr[i].kind = "request" /\ tr[i].endpoint = endpoint}

Waits(tr) == {i \in 1..Len(tr) : tr[i].kind = "wait"}

-----------------------------------------------------------------------------
(* Results *)

RunResult(stage, class, code, canceled) ==
    [stage |-> stage, class |-> class, code |-> code, canceled |-> canceled]

Running == RunResult("", "running", "", FALSE)

NotReturned == [returned |-> FALSE, class |-> "", code |-> "", canceled |-> FALSE,
                resp |-> NoResponse]

PollReturn(class, code, canceled, resp) ==
    [returned |-> TRUE, class |-> class, code |-> code, canceled |-> canceled,
     resp |-> resp]

NoBrowser == [opened |-> FALSE, url |-> "", failed |-> FALSE]

NoDeviceResponse == DeviceAuthorizationResponse(NoFields)

NoTokenRequest == TokenRequest("", "", "", AuthMethodNone, NoParams)

\* a classifier that has not run yet
NotParsed == [done |-> FALSE, r |-> JSONParsingError, v |-> NoDeviceResponse]

Parsed(r, v) == [done |-> TRUE, r |-> r, v |-> v]

-----------------------------------------------------------------------------
(* The authorization code attempt: values *)

\* a nil *AuthorizationCodeRequest
NilRequest == [nil |-> TRUE, ClientID |-> "", State |-> ""]

\* the fields of AuthorizationCodeRequest the attempt reads
AuthorizationCodeRequest(id, state) == [nil |-> FALSE, ClientID |-> id, State |-> state]

\* a nil *webflow.CallbackResponse
NilCallbackResponse ==
    [nil |-> TRUE, Code |-> "", State |-> "", ErrorMsg |-> "", ErrorDescription |-> ""]

CallbackResponse(code, state, msg, desc) ==
    [nil |-> FALSE, Code |-> code, State |-> state, ErrorMsg |-> msg,
     ErrorDescription |-> desc]

\* a nil *AuthorizationCodeResponse
NilAuthorizationCodeResponse == [nil |-> TRUE, Code |-> "", State |-> ""]

AuthorizationCodeResponse(code, state) == [nil |-> FALSE, Code |-> code, State |-> state]

NoError == [kind |-> "", args |-> <<>>]

\* an error made by errors.New or fmt.Errorf: its format and its arguments
Errorf(kind, args) == [kind |-> kind, args |-> args]

Validated(resp, err) == [done |-> TRUE, resp |-> resp, err |-> err]

NotValidated == [done |-> FALSE, resp |-> NilAuthorizationCodeResponse, err |-> NoError]

\* faulty variant: a callback without state passes the state check
ValidateResponseSkipsEmptyState(req, resp) ==
    IF req.nil THEN Validated(NilAuthorizationCodeResponse, Errorf("request cannot be nil", <<>>))
    ELSE IF resp.nil
    THEN Validated(NilAuthorizationCodeResponse, Errorf("response cannot be nil", <<>>))
    ELSE IF req.State # "" /\ resp.State # "" /\ resp.State # req.State
    THEN Validated(NilAuthorizationCodeResponse,
                   Errorf("state mismatch", <<req.State, resp.State>>))
    ELSE IF resp.Code = ""
    THEN Validated(NilAuthorizationCodeResponse,
                   Errorf("authorization failed", <<resp.ErrorMsg, resp.ErrorDescription>>))
    ELSE Validated(AuthorizationCodeResponse(resp.Code,
                                             IF req.State # "" THEN req.State ELSE ""),
                   NoError)

\* faulty variant: the returned state is the callback's
ValidateResponseEchoesState(req, resp) ==
    IF req.nil THEN Validated(NilAuthorizationCodeResponse, Errorf("request cannot be nil", <<>>))
    ELSE IF resp.nil
    THEN Validated(NilAuthorizationCodeResponse, Errorf("response cannot be nil", <<>>))
    ELSE IF req.State # "" /\ resp.State # req.State
    THEN Validated(NilAuthorizationCodeResponse,
                   Errorf("state mismatch", <<req.State, resp.State>>))
    ELSE IF resp.Code = ""
    THEN Validated(NilAuthorizationCodeResponse,
                   Errorf("authorization failed", <<resp.ErrorMsg, resp.ErrorDescription>>))
    ELSE Validated(AuthorizationCodeResponse(resp.Code, resp.State), NoError)

\* faulty variant: the error for a missing code leaves out the description
ValidateResponseDropsDescription(req, resp) ==
    IF req.nil THEN Validated(NilAuthorizationCodeResponse, Errorf("request cannot be nil", <<>>))
    ELSE IF resp.nil
    THEN Validated(NilAuthorizationCodeResponse, Errorf("response cannot be nil", <<>>))
    ELSE IF req.State # "" /\ resp.State # req.State
    THEN Validated(NilAuthorizationCodeResponse,
                   Errorf("state mismatch", <<req.State, resp.State>>))
    ELSE IF resp.Code = ""
    THEN Validated(NilAuthorizationCodeResponse,
                   Errorf("authorization failed", <<resp.ErrorMsg, "">>))
    ELSE Validated(AuthorizationCodeResponse(resp.Code,
                                             IF req.State # "" THEN req.State ELSE ""),
                   NoError)

\* DefaultResponseValidator.ValidateResponse
ValidateResponse(req, resp) ==
    IF req.nil THEN Validated(NilAuthorizationCodeResponse, Errorf("request cannot be nil", <<>>))
    ELSE IF resp.nil
    THEN Validated(NilAuthorizationCodeResponse, Errorf("response cannot be nil", <<>>))
    ELSE IF req.State # "" /\ resp.State # req.State
    THEN Validated(NilAuthorizationCodeResponse,
                   Errorf("state mismatch", <<req.State, resp.State>>))
    ELSE IF resp.Code = ""
    THEN Validated(NilAuthorizationCodeResponse,
                   Errorf("authorization failed", <<resp.ErrorMsg, resp.ErrorDescription>>))
    ELSE Validated(AuthorizationCodeResponse(resp.Code,
                                             IF req.State # "" THEN req.State ELSE ""),
                   NoError)

\* StartServer has not returned
NotStarted == [returned |-> FALSE, server |-> FALSE, err |-> NoError]

\* what StartServer returns: the server or nil, and the error
StartReturn(server, err) == [returned |-> TRUE, server |-> server, err |-> err]

\* no timer of StartServer's select has fired
NoTimers == [delay |-> FALSE, timeout |-> FALSE]

\* ExecuteAuthorizationCodeRequest has not returned
NoAuthReturn == [returned |-> FALSE, resp |-> NilAuthorizationCodeResponse, err |-> NoError]

AuthReturn(resp, err) == [returned |-> TRUE, resp |-> resp, err |-> err]

\* the optional fields of AuthorizationCodeRequest and the parameter each of
\* them becomes, in the order CreateAuthorizationCodeRequestValues reads them
StandardParams ==
    << <<"State", "state">>, <<"RedirectURI", "redirect_uri">>, <<"Scope", "scope">>,
       <<"Prompt", "prompt">>, <<"AcrValues", "acr_values">>,
       <<"LoginHint", "login_hint">>, <<"MaxAge", "max_age">>,
       <<"UILocales", "ui_locales">>,
       <<"CodeChallengeMethod", "code_challenge_method">>,
       <<"CodeChallenge", "code_challenge">>, <<"RequestURI", "request_uri">> >>

FieldNames == {StandardParams[i][1] : i \in 1..Len(StandardParams)}

\* CustomArgs that is nil or has no entry
NoCustomArgs == [k \in {} |-> ""]

\* an AuthorizationCodeRequest with all of its fields: f gives the optional
\* fields by name, custom is the CustomArgs map
AuthorizationCodeRequestFields(id, f, custom) ==
    [nil |-> FALSE, ClientID |-> id, State |-> f["State"],
     RedirectURI |-> f["RedirectURI"], Scope |-> f["Scope"], Prompt |-> f["Prompt"],
     AcrValues |-> f["AcrValues"], LoginHint |-> f["LoginHint"], MaxAge |-> f["MaxAge"],
     UILocales |-> f["UILocales"], CodeChallengeMethod |-> f["CodeChallengeMethod"],
     CodeChallenge |-> f["CodeChallenge"], RequestURI |-> f["RequestURI"],
     CustomArgs |-> custom]

\* the run of "if req.X != "" { values.Set(x, req.X) }" from the i-th on
RECURSIVE StandardValues(_, _, _)
StandardValues(req, p, i) ==
    IF i > Len(StandardParams) THEN p
    ELSE StandardValues(req,
                        IF req[StandardParams[i][1]] # ""
                        THEN ParamSet(p, StandardParams[i][2], req[StandardParams[i][1]])
                        ELSE p,
                        i + 1)

\* the loop "for k, v := range *req.CustomArgs { values.Set(k, v) }": the
\* keys of a map are distinct, so the order of the loop does not matter
CustomValues(p, custom) ==
    [k \in (DOMAIN p) \cup (DOMAIN custom) |->
        IF k \in DOMAIN custom THEN <<custom[k]>> ELSE p[k]]

\* what CreateAuthorizationCodeRequestValues returns: the values or nil, and
\* the error
RequestValues(values, err) == [nil |-> err # NoError, values |-> values, err |-> err]

\* faulty variant: the optional parameters are left out
CreateAuthorizationCodeRequestValuesNoOptional(req) ==
    IF req.ClientID = ""
    THEN RequestValues(NoParams, Errorf("client_id is required", <<>>))
    ELSE RequestValues(CustomValues(ParamSet(ParamSet(NoParams, "response_type", "code"),
                                             "client_id", req.ClientID),
                                    req.CustomArgs),
                       NoError)

CreateAuthorizationCodeRequestValues(req) ==
    IF req.ClientID = ""
    THEN RequestValues(NoParams, Errorf("client_id is required", <<>>))
    ELSE RequestValues(CustomValues(StandardValues(req,
                                        ParamSet(ParamSet(NoParams, "response_type", "code"),
                                                 "client_id", req.ClientID), 1),
                                    req.CustomArgs),
                       NoError)

\* url.Parse fails on an endpoint with a space in its scheme
EndpointParses(endpoint) == endpoint # "ht tp://invalid"

\* BuildAuthorizationURL has not been called
NotBuilt == [built |-> FALSE, endpoint |-> "", query |-> NoParams, err |-> NoError]

\* what BuildAuthorizationURL returns: the URL, as its endpoint and its
\* query, or "", and the error
BuiltURL(endpoint, query, err) ==
    [built |-> TRUE, endpoint |-> endpoint, query |-> query, err |-> err]

\* DefaultAuthorizationURLBuilder.BuildAuthorizationURL with
\* CreateAuthorizationCodeRequestURL
AuthorizationURL(endpoint, req) ==
    IF endpoint = "" THEN BuiltURL("", NoParams, Errorf("endpoint is required", <<>>))
    ELSE IF req.nil THEN BuiltURL("", NoParams, Errorf("request cannot be nil", <<>>))
    ELSE IF CreateAuthorizationCodeRequestValues(req).err # NoError
    THEN BuiltURL("", NoParams,
                  Errorf("failed to create authorization request values",
                         <<CreateAuthorizationCodeRequestValues(req).err.kind>>))
    ELSE IF ~EndpointParses(endpoint)
    THEN BuiltURL("", NoParams,
                  Errorf("failed to create authorization request URL",
                         <<"failed to parse endpoint URL">>))
    ELSE BuiltURL(endpoint, CreateAuthorizationCodeRequestValues(req).values, NoError)

\* whether an error is, or wraps with %w, the cancellation error of a context
WrapsCanceled(err) ==
    \/ err.kind = "context canceled"
    \/ \E i \in 1..Len(err.args) : err.args[i] = "context canceled"

-----------------------------------------------------------------------------
(* Components that are not under test *)

NoTokenExchangeInput ==
    [Resource |-> "", Audience |-> "", Scope |-> "", RequestedTokenType |-> "",
     SubjectToken |-> "", SubjectTokenType |-> "", ActorToken |-> "",
     ActorTokenType |-> ""]

NoBuilderInput ==
    [ClientID |-> "", ClientSecret |-> "", AuthMethod |-> AuthMethodNone, Code |-> "",
     RedirectURI |-> "", CodeVerifier |-> "", RefreshToken |-> "", Scope |-> "",
     DeviceCode |-> "", Exchange |-> NoTokenExchangeInput]

\* the flows are not running
IdleFlow ==
    /\ flow = "none"
    /\ cfg \in {c \in Configs : c.ClientSecret = "" /\ ~c.DPoP /\ c.AuthMethod = AuthMethodNone}
    /\ pc = "idle"
    /\ ctxCancelled = FALSE
    /\ headers = NoHeaders
    /\ proofs = <<>>
    /\ trace = <<>>
    /\ interval = 0
    /\ startInterval = 0
    /\ tokenReq = NoTokenRequest
    /\ devResp = NoDeviceResponse
    /\ browser = NoBrowser
    /\ pollRet = NotReturned
    /\ runErr = Running

\* the classifiers are not under test
IdleClassify ==
    /\ pStatus = 0
    /\ pBody = JText
    /\ pTok = NotParsed
    /\ pDev = NotParsed

\* absent url.Values
NilValues == [nil |-> TRUE, m |-> NoParams]

\* CreateAuthorizationCodeRequestURL has not returned
NoURLReturn == [returned |-> FALSE, url |-> <<>>, err |-> NoError]

\* no URL is being made
IdleURL ==
    /\ uEndpoint = <<>>
    /\ uValues = NilValues
    /\ uRet = NoURLReturn

\* no builder is under test
IdleRequest ==
    /\ builder = "none"
    /\ bInput = NoBuilderInput
    /\ built = NoTokenRequest
    /\ sent = <<>>

\* no validation is under test
IdleValidate ==
    /\ vReq = NilRequest
    /\ vResp = NilCallbackResponse
    /\ vOut = NotValidated

\* no authorization code attempt is running
IdleAuthCode ==
    /\ aPc = "idle"
    /\ callback = ""
    /\ authEndpoint = ""
    /\ listener = "none"
    /\ serverErrChan = <<>>
    /\ timers = NoTimers
    /\ startRet = NotStarted
    /\ calls = <<>>
    /\ authRet = NoAuthReturn
    /\ authURL = NotBuilt

\* what is on standard input: Scan fails at the end of the input or on a
\* read error, or gives the first line
Stdin(scan, text) == [scan |-> scan, text |-> text]

\* no flag has a value
NoFlags ==
    [parseError |-> FALSE, IssuerURL |-> "", ClientID |-> "", Scope |-> "",
     RefreshToken |-> "", Stdin |-> Stdin("eof", ""), DPoP |-> FALSE,
     DPoPPrivateKeyFile |-> "", DPoPPublicKeyFile |-> ""]

\* a nil CommandRunner
NilRunner == [nil |-> TRUE, conf |-> NoFlags]

\* the runner of a command, with the Config and FlowConfig it points to
Runner(conf) == [nil |-> FALSE, conf |-> conf]

\* the flag parser has not returned
NotParsedFlags == [returned |-> FALSE, runner |-> NilRunner, output |-> "", err |-> NoError]

\* what a flag parser returns: runner, output, err
FlagsReturn(runner, output, err) ==
    [returned |-> TRUE, runner |-> runner, output |-> output, err |-> err]

\* one entry of invalidArgsChecks
Check(condition, message) == [condition |-> condition, message |-> message]

DPoPKeysMessage == "both dpop-private-key and dpop-public-key are required when using DPoP"

\* invalidArgsChecks of parseDeviceFlags
DeviceChecks(a) ==
    << Check(a.IssuerURL = "", "issuer is required"),
       Check(a.ClientID = "", "client-id is required"),
       Check(a.Scope = "", "scope is required"),
       Check(a.DPoP /\ (a.DPoPPrivateKeyFile = "" \/ a.DPoPPublicKeyFile = ""),
             DPoPKeysMessage) >>

\* invalidArgsChecks of parseTokenRefreshFlags
TokenRefreshChecks(a) ==
    << Check(a.IssuerURL = "", "issuer is required"),
       Check(a.RefreshToken = "", "refresh token is required"),
       Check(a.DPoP /\ (a.DPoPPrivateKeyFile = "" \/ a.DPoPPublicKeyFile = ""),
             DPoPKeysMessage) >>

\* faulty variant: the loop goes on after a violated check and keeps the last
RECURSIVE LastViolated(_, _)
LastViolated(checks, i) ==
    IF i > Len(checks) THEN 0
    ELSE IF LastViolated(checks, i + 1) # 0 THEN LastViolated(checks, i + 1)
    ELSE IF checks[i].condition THEN i
    ELSE 0

\* the loop over invalidArgsChecks from the i-th entry on: the index of the
\* entry it returns on, or 0
RECURSIVE FirstViolated(_, _)
FirstViolated(checks, i) ==
    IF i > Len(checks) THEN 0
    ELSE IF checks[i].condition THEN i
    ELSE FirstViolated(checks, i + 1)

\* the end of both flag parsers: the loop and the two returns
Validate(checks, conf) ==
    IF FirstViolated(checks, 1) # 0
    THEN FlagsReturn(NilRunner, checks[FirstViolated(checks, 1)].message,
                     Errorf("invalid arguments",
                            <<checks[FirstViolated(checks, 1)].message>>))
    ELSE FlagsReturn(Runner(conf), "", NoError)

\* parseDeviceFlags after flags.Parse: a holds the values of the flags
parseDeviceFlags(a) ==
    IF a.parseError THEN FlagsReturn(NilRunner, "usage", Errorf("flag", <<>>))
    ELSE Validate(DeviceChecks(a), a)

\* parseTokenRefreshFlags after flags.Parse
parseTokenRefreshFlags(a) ==
    IF a.parseError THEN FlagsReturn(NilRunner, "usage", Errorf("flag", <<>>))
    ELSE IF a.RefreshToken = "-" /\ a.Stdin.scan = "error"
    THEN FlagsReturn(NilRunner, "", Errorf("read", <<>>))
    ELSE IF a.RefreshToken = "-" /\ a.Stdin.scan = "eof"
    THEN FlagsReturn(NilRunner, "", Errorf("no refresh token provided on stdin", <<>>))
    ELSE LET conf == IF a.RefreshToken = "-"
                     THEN [a EXCEPT !.RefreshToken = a.Stdin.text]
                     ELSE a
         IN  Validate(TokenRefreshChecks(conf), conf)

\* signalChan before it is made
NoChannel == [buf |-> <<>>, notify |-> FALSE, closed |-> FALSE]

\* signalChan as RunCommand makes it: empty, open, registered with
\* signal.Notify
NewChannel == [buf |-> <<>>, notify |-> TRUE, closed |-> FALSE]

\* the goroutine has not been started
NoWatcher == [pc |-> "none", sig |-> ""]

\* command.Run and RunCommand have not returned: no exit code yet
NotExited == [run |-> "", code |-> -1]

ExitOK == 0

ExitError == 1

\* what prepareOIDCConfig and command.Run can come back with: a
\* configuration error, nil, an error that is or wraps context.Canceled or
\* context.DeadlineExceeded, another error
RunOutcomes(cancelled) ==
    {"config error", "nil", "deadline exceeded", "error"} \cup
    (IF cancelled THEN {"canceled"} ELSE {})

\* what RunCommand logs for the outcome
OutcomeLog(outcome) ==
    CASE outcome = "config error" -> <<[line |-> "configuration error", sig |-> ""]>>
      [] outcome = "canceled" -> <<[line |-> "operation cancelled", sig |-> ""]>>
      [] outcome = "deadline exceeded" -> <<[line |-> "operation timed out", sig |-> ""]>>
      [] outcome = "error" -> <<[line |-> "error", sig |-> ""]>>
      [] OTHER -> <<>>

ExitHelp == 2

\* one call RunCommand made and the error it returned
Step(call, err) == [call |-> call, err |-> err]

\* the calls behind an outcome: prepareOIDCConfig failed, or it returned nil
\* and command.Run returned the outcome
StepsOf(outcome) ==
    IF outcome = "config error" THEN <<Step("prepareOIDCConfig", "error")>>
    ELSE <<Step("prepareOIDCConfig", "nil"), Step("Run", outcome)>>

\* faulty variant: a cancelled run is a failure like any other error
ExitCodeCanceledIsError(outcome) == IF outcome = "nil" THEN ExitOK ELSE ExitError

\* the exit code RunCommand returns for the outcome
ExitCode(outcome) == IF outcome \in {"nil", "canceled"} THEN ExitOK ELSE ExitError

\* "sig := <-signalChan": the oldest signal in the buffer; on an empty,
\* closed channel the zero value of os.Signal, which is nil
Receive(chan) ==
    IF chan.buf # <<>> THEN [ready |-> TRUE, sig |-> Head(chan.buf)]
    ELSE [ready |-> chan.closed, sig |-> "nil"]

\* no command line is being processed
IdleCommand ==
    /\ fCmd = "none"
    /\ fArgs = NoFlags
    /\ fRet = NotParsedFlags
    /\ rPc = "idle"
    /\ signalChan = NoChannel
    /\ watcher = NoWatcher
    /\ rLog = <<>>
    /\ rCancels = <<>>
    /\ rExit = NotExited
    /\ rSignals = <<>>
    /\ rSteps = <<>>

-----------------------------------------------------------------------------
(* ExecutePollingTokenRequest *)

\* faulty variant: only a negative interval is replaced by the default
EffectiveIntervalNegativeOnly(i) == IF i < 0 THEN DefaultInterval ELSE i

\* the interval the loop starts with
EffectiveInterval(i) == IF i <= 0 THEN DefaultInterval ELSE i

\* the headers argument ExecutePollingTokenRequest hands to ExecuteTokenRequest
PollingHeaders(hdrs) == NoHeaders

\* faulty variant: the error member is looked at before the status
PollBranchBodyFirst(resp) ==
    LET dec == UnmarshalMap(resp.body)
    IN  IF dec.ok /\ dec.m["error"] = JString("authorization_pending") THEN "authorization_pending"
        ELSE IF dec.ok /\ dec.m["error"] = JString("slow_down") THEN "slow_down"
        ELSE IF IsSuccess(resp) THEN "Success"
        ELSE IF ~dec.ok THEN "JSONParsingError"
        ELSE IF dec.m["error"].t = "string" THEN "OAuthProtocolError"
        ELSE "HTTPFailure"

\* faulty variant: the loop decodes the body of every response, 2xx included
PollBranchDecodesSuccess(resp) ==
    LET dec == UnmarshalMap(resp.body)
    IN  IF ~dec.ok THEN "JSONParsingError"
        ELSE IF IsSuccess(resp) THEN "Success"
        ELSE IF dec.m["error"].t = "string"
             THEN CASE dec.m["error"].s = "authorization_pending" -> "authorization_pending"
                    [] dec.m["error"].s = "slow_down" -> "slow_down"
                    [] OTHER -> "OAuthProtocolError"
             ELSE "HTTPFailure"

\* the branch the loop body takes for a response PostForm delivered
PollBranch(resp) ==
    IF IsSuccess(resp) THEN "Success"
    ELSE LET dec == UnmarshalMap(resp.body)
         IN  IF ~dec.ok THEN "JSONParsingError"
             ELSE IF dec.m["error"].t = "string"
                  THEN CASE dec.m["error"].s = "authorization_pending" -> "authorization_pending"
                         [] dec.m["error"].s = "slow_down" -> "slow_down"
                         [] OTHER -> "OAuthProtocolError"
                  ELSE "HTTPFailure"

\* faulty variant: authorization_pending backs off as well
NextIntervalAlwaysStep(branch, i) == i + SlowDownStep

\* faulty variant: slow_down sets the interval to the step instead of adding it
NextIntervalReset(branch, i) == IF branch = "slow_down" THEN SlowDownStep ELSE i

\* the interval after the branch was taken
NextInterval(branch, i) == IF branch = "slow_down" THEN i + SlowDownStep ELSE i

\* faulty variant: the loop sleeps the old interval and increases afterwards
SleepDurationBeforeStep(branch, i) == i

\* the duration handed to time.Sleep on a retry branch
SleepDuration(branch, i) == NextInterval(branch, i)

\* faulty variant: an HTTP failure is retried like authorization_pending
RetriesOnFailure(branch) == branch \in {"authorization_pending", "slow_down", "HTTPFailure"}

\* faulty variant: slow_down ends the loop like any other OAuth error
RetriesPendingOnly(branch) == branch = "authorization_pending"

Retries(branch) == branch \in {"authorization_pending", "slow_down"}

ErrorCode(resp) ==
    LET dec == UnmarshalMap(resp.body)
    IN  IF dec.ok /\ dec.m["error"].t = "string" THEN dec.m["error"].s ELSE ""

-----------------------------------------------------------------------------
(* The flows *)

Flows == {"device", "refresh", "exchange"}

Init ==
    /\ flow \in Flows
    /\ cfg \in Configs
    /\ pc = "start"
    /\ ctxCancelled = FALSE
    /\ headers = NoHeaders
    /\ proofs = <<>>
    /\ trace = <<>>
    /\ interval = 0
    /\ startInterval = 0
    /\ tokenReq = NoTokenRequest
    /\ devResp = NoDeviceResponse
    /\ browser = NoBrowser
    /\ pollRet = NotReturned
    /\ runErr = Running
    /\ IdleClassify
    /\ IdleURL
    /\ IdleRequest
    /\ IdleValidate
    /\ IdleAuthCode
    /\ IdleCommand

\* faulty variant: Run goes on without the header when the proof fails
setupDPoPHeadersIgnoresError(ok, next) ==
    /\ proofs' = IF cfg.DPoP
                 THEN Append(proofs, [method |-> "POST", url |-> TokenEndpoint, ok |-> ok])
                 ELSE proofs
    /\ headers' = IF cfg.DPoP /\ ok
                  THEN Headers(NoAuthorization, Proof("POST", TokenEndpoint, Len(proofs) + 1))
                  ELSE NoHeaders
    /\ pc' = next
    /\ runErr' = runErr

\* setupDPoPHeaders: ok is whether crypto.NewDPoPProof succeeds
setupDPoPHeaders(ok, next) ==
    IF cfg.DPoP
    THEN /\ proofs' = Append(proofs, [method |-> "POST", url |-> TokenEndpoint, ok |-> ok])
         /\ IF ok
            THEN /\ headers' = Headers(NoAuthorization,
                                       Proof("POST", TokenEndpoint, Len(proofs) + 1))
                 /\ pc' = next
                 /\ runErr' = runErr
            ELSE /\ headers' = headers
                 /\ pc' = "done"
                 /\ runErr' = RunResult("dpop proof", "ProofError", "", FALSE)
    ELSE /\ proofs' = proofs
         /\ headers' = NoHeaders
         /\ pc' = next
         /\ runErr' = runErr

\* DeviceFlow.Run up to the device-authorization call
DeviceFlowSetup ==
    /\ flow = "device" /\ pc = "start"
    /\ \E ok \in BOOLEAN : setupDPoPHeaders(ok, "devauth_send")
    /\ UNCHANGED <<flow, cfg, ctxCancelled, trace, interval, startInterval, tokenReq,
                   devResp, browser, pollRet, pureVars, sideVars>>

DeviceAuthorizationRequest == [ClientID |-> cfg.ClientID, Scope |-> cfg.Scope,
                               CodeChallenge |-> "", CodeChallengeMethod |-> ""]

\* ExecuteDeviceAuthorizationRequest: the request leaves
ExecuteDeviceAuthorizationRequest ==
    /\ flow = "device" /\ pc = "devauth_send"
    /\ IF ctxCancelled
       THEN /\ pc' = "done"
            /\ runErr' = RunResult("device authorization request", "TransportError", "", TRUE)
            /\ trace' = trace
       ELSE /\ pc' = "devauth_await"
            /\ runErr' = runErr
            /\ trace' = Append(trace, RequestEvent(DeviceAuthorizationEndpoint, headers,
                                  DeviceAuthorizationParams(DeviceAuthorizationRequest)))
    /\ UNCHANGED <<flow, cfg, ctxCancelled, headers, proofs, interval, startInterval,
                   tokenReq, devResp, browser, pollRet, pureVars, sideVars>>

\* the device-authorization call returns and Run classifies the response
DeviceAuthorizationReturn ==
    /\ flow = "device" /\ pc = "devauth_await"
    /\ \E r \in PostFormOutcomes(ctxCancelled, DeviceAuthorizationResponses) :
        /\ trace' = Answered(trace, r)
        /\ IF r.transport # "ok"
           THEN /\ pc' = "done"
                /\ runErr' = RunResult("device authorization request", "TransportError",
                                       "", IsCanceled(r))
                /\ devResp' = devResp
           ELSE LET parsed == ParseDeviceAuthorizationResponse(r)
                IN  IF parsed.r.class # "Success"
                    THEN /\ pc' = "done"
                         /\ runErr' = RunResult("device authorization", parsed.r.class,
                                                parsed.r.code, FALSE)
                         /\ devResp' = devResp
                    ELSE /\ pc' = "browser"
                         /\ runErr' = runErr
                         /\ devResp' = parsed.v
    /\ UNCHANGED <<flow, cfg, ctxCancelled, headers, proofs, interval, startInterval,
                   tokenReq, browser, pollRet, pureVars, sideVars>>

\* the URL DeviceFlow.Run prints and opens
VerificationURL(d) ==
    IF d.VerificationURIComplete # "" THEN d.VerificationURIComplete ELSE d.VerificationURI

\* DeviceFlow.Run opens the browser (failed: OpenURL returned an error, which
\* is logged), builds the token request and enters ExecutePollingTokenRequest
OpenBrowserAndStartPolling ==
    /\ flow = "device" /\ pc = "browser"
    /\ \E failed \in BOOLEAN :
        browser' = [opened |-> TRUE, url |-> VerificationURL(devResp), failed |-> failed]
    /\ tokenReq' = CreateDeviceCodeTokenRequest(cfg.ClientID, cfg.ClientSecret,
                                                cfg.AuthMethod, devResp.DeviceCode)
    /\ startInterval' = devResp.Interval
    /\ interval' = EffectiveInterval(devResp.Interval)
    /\ pc' = "poll_send"
    /\ UNCHANGED <<flow, cfg, ctxCancelled, headers, proofs, trace, devResp, pollRet,
                   runErr, pureVars, sideVars>>

TokenRequestsSent == Cardinality(RequestsTo(trace, TokenEndpoint))

\* one pass of the loop: ExecuteTokenRequest up to the point the request leaves
PollSend ==
    /\ flow = "device" /\ pc = "poll_send"
    /\ TokenRequestsSent < MaxAttempts
    /\ tokenReq' = [tokenReq EXCEPT !.Params = ExecuteTokenRequestParams(tokenReq)]
    /\ IF ctxCancelled
       THEN /\ pc' = "done"
            /\ pollRet' = PollReturn("TransportError", "", TRUE, TransportError("canceled"))
            /\ runErr' = RunResult("polling token request", "TransportError", "", TRUE)
            /\ trace' = trace
       ELSE /\ pc' = "poll_await"
            /\ pollRet' = pollRet
            /\ runErr' = runErr
            /\ trace' = Append(trace, RequestEvent(TokenEndpoint,
                                  ExecuteTokenRequestHeaders(tokenReq, PollingHeaders(headers)),
                                  ExecuteTokenRequestParams(tokenReq)))
    /\ UNCHANGED <<flow, cfg, ctxCancelled, headers, proofs, interval, startInterval,
                   devResp, browser, pureVars, sideVars>>

\* DeviceFlow.Run after ExecutePollingTokenRequest returned a response
DeviceFlowResult(resp) ==
    LET parsed == ParseTokenResponse(resp)
    IN  IF parsed.class = "Success" THEN RunResult("", "ok", "", FALSE)
        ELSE RunResult("token", parsed.class, parsed.code, FALSE)

\* the rest of the pass: the response arrives and the loop body acts on it
PollReturnOrSleep ==
    /\ flow = "device" /\ pc = "poll_await"
    /\ \E r \in PostFormOutcomes(ctxCancelled, TokenResponses) :
        IF r.transport # "ok"
        THEN /\ pc' = "done"
             /\ pollRet' = PollReturn("TransportError", "", IsCanceled(r), r)
             /\ runErr' = RunResult("polling token request", "TransportError", "",
                                    IsCanceled(r))
             /\ trace' = Answered(trace, r)
             /\ interval' = interval
        ELSE LET branch == PollBranch(r)
             IN  IF Retries(branch)
                 THEN /\ pc' = "sleep"
                      /\ pollRet' = pollRet
                      /\ runErr' = runErr
                      /\ interval' = NextInterval(branch, interval)
                      /\ trace' = Append(Answered(trace, r),
                                         WaitEvent(SleepDuration(branch, interval)))
                 ELSE /\ pc' = "done"
                      /\ interval' = interval
                      /\ trace' = Answered(trace, r)
                      /\ IF branch = "Success"
                         THEN /\ pollRet' = PollReturn("Success", "", FALSE, r)
                              /\ runErr' = DeviceFlowResult(r)
                         ELSE /\ pollRet' = PollReturn(branch, ErrorCode(r), FALSE, r)
                              /\ runErr' = RunResult("polling token request", branch,
                                                     ErrorCode(r), FALSE)
    /\ UNCHANGED <<flow, cfg, ctxCancelled, headers, proofs, startInterval, tokenReq,
                   devResp, browser, pureVars, sideVars>>

\* time.Sleep returns after the whole duration, whatever the context's state
SleepDone ==
    /\ flow = "device" /\ pc = "sleep"
    /\ pc' = "poll_send"
    /\ UNCHANGED <<flow, cfg, ctxCancelled, headers, proofs, trace, interval,
                   startInterval, tokenReq, devResp, browser, pollRet, runErr, pureVars,
                   sideVars>>

\* the signal watcher or a deadline cancels the context of a running flow
Cancel ==
    /\ pc # "done"
    /\ ~ctxCancelled
    /\ ctxCancelled' = TRUE
    /\ UNCHANGED <<flow, cfg, pc, headers, proofs, trace, interval, startInterval,
                   tokenReq, devResp, browser, pollRet, runErr, pureVars, sideVars>>

\* TokenRefreshFlow.Run up to the token call: DPoP headers, then the request
TokenRefreshFlowSetup ==
    /\ flow = "refresh" /\ pc = "start"
    /\ \E ok \in BOOLEAN : setupDPoPHeaders(ok, "token_send")
    /\ tokenReq' = IF pc' = "done" THEN tokenReq
                   ELSE CreateRefreshTokenRequest(cfg.ClientID, cfg.ClientSecret,
                                                  cfg.AuthMethod, cfg.RefreshToken, cfg.Scope)
    /\ UNCHANGED <<flow, cfg, ctxCancelled, trace, interval, startInterval, devResp,
                   browser, pollRet, pureVars, sideVars>>

\* TokenExchangeFlow.Run up to the token call: the request, then DPoP headers
TokenExchangeFlowSetup ==
    /\ flow = "exchange" /\ pc = "start"
    /\ tokenReq' = CreateTokenExchangeRequest(cfg.ClientID, cfg.ClientSecret,
                                              cfg.AuthMethod, TokenExchangeInput)
    /\ \E ok \in BOOLEAN : setupDPoPHeaders(ok, "token_send")
    /\ UNCHANGED <<flow, cfg, ctxCancelled, trace, interval, startInterval, devResp,
                   browser, pollRet, pureVars, sideVars>>

\* ExecuteTokenRequest as the refresh and exchange flows call it: the request
\* leaves with the flow's headers
ExecuteTokenRequest ==
    /\ flow \in {"refresh", "exchange"} /\ pc = "token_send"
    /\ tokenReq' = [tokenReq EXCEPT !.Params = ExecuteTokenRequestParams(tokenReq)]
    /\ IF ctxCancelled
       THEN /\ pc' = "done"
            /\ runErr' = RunResult("token request", "TransportError", "", TRUE)
            /\ trace' = trace
       ELSE /\ pc' = "token_await"
            /\ runErr' = runErr
            /\ trace' = Append(trace, RequestEvent(TokenEndpoint,
                                  ExecuteTokenRequestHeaders(tokenReq, headers),
                                  ExecuteTokenRequestParams(tokenReq)))
    /\ UNCHANGED <<flow, cfg, ctxCancelled, headers, proofs, interval, startInterval,
                   devResp, browser, pollRet, pureVars, sideVars>>

\* the token call returns and the flow classifies the response
TokenRequestReturn ==
    /\ flow \in {"refresh", "exchange"} /\ pc = "token_await"
    /\ \E r \in PostFormOutcomes(ctxCancelled, TokenResponses) :
        /\ trace' = Answered(trace, r)
        /\ pc' = "done"
        /\ runErr' = IF r.transport # "ok"
                     THEN RunResult("token request", "TransportError", "", IsCanceled(r))
                     ELSE DeviceFlowResult(r)
    /\ UNCHANGED <<flow, cfg, ctxCancelled, headers, proofs, interval, startInterval,
                   tokenReq, devResp, browser, pollRet, pureVars, sideVars>>

Next ==
    \/ DeviceFlowSetup
    \/ ExecuteDeviceAuthorizationRequest
    \/ DeviceAuthorizationReturn
    \/ OpenBrowserAndStartPolling
    \/ PollSend
    \/ PollReturnOrSleep
    \/ SleepDone
    \/ TokenRefreshFlowSetup
    \/ TokenExchangeFlowSetup
    \/ ExecuteTokenRequest
    \/ TokenRequestReturn
    \/ Cancel

Spec == Init /\ [][Next]_vars

-----------------------------------------------------------------------------
(* The classifiers on their own: every status with every body *)

Statuses == {199, 200, 204, 299, 300, 400, 401, 500}

ErrorMembers == {JAbsent, JNull, JNumber(1), JString("invalid_request"),
                 JString("authorization_pending")}

DescriptionMembers == {JAbsent, JNumber(1), JString("missing parameter")}

DeviceCodeMembers == {JAbsent, JNumber(1), JString("dc")}

ClassifierIntervalMembers == {JAbsent, JNull, JNumber(5), JFraction(5), JString("5")}

ClassifierBodies ==
    {JText, JArray, JNullBody} \cup
    {JObject([NoFields EXCEPT !["error"] = e, !["error_description"] = d,
                              !["device_code"] = c, !["interval"] = i]) :
        e \in ErrorMembers, d \in DescriptionMembers, c \in DeviceCodeMembers,
        i \in ClassifierIntervalMembers}

InitClassify ==
    /\ pStatus \in Statuses
    /\ pBody \in ClassifierBodies
    /\ pTok = NotParsed
    /\ pDev = NotParsed
    /\ IdleURL
    /\ IdleFlow
    /\ IdleRequest
    /\ IdleValidate
    /\ IdleAuthCode
    /\ IdleCommand

CallParseTokenResponse ==
    /\ pc = "idle" /\ ~pTok.done
    /\ pTok' = Parsed(ParseTokenResponse(Response(pStatus, pBody)), NoDeviceResponse)
    /\ UNCHANGED <<flowVars, pStatus, pBody, pDev, urlVars, sideVars>>

CallParseDeviceAuthorizationResponse ==
    /\ pc = "idle" /\ ~pDev.done
    /\ LET parsed == ParseDeviceAuthorizationResponse(Response(pStatus, pBody))
       IN  pDev' = Parsed(parsed.r, parsed.v)
    /\ UNCHANGED <<flowVars, pStatus, pBody, pTok, urlVars, sideVars>>

NextClassify == CallParseTokenResponse \/ CallParseDeviceAuthorizationResponse

SpecClassify == InitClassify /\ [][NextClassify]_vars

-----------------------------------------------------------------------------
(* The builders and ExecuteTokenRequest on their own *)

\* most ExecuteTokenRequest calls made on one TokenRequest
MaxCalls == 2

Builders == {"authorization_code", "refresh_token", "client_credentials",
             "device_code", "token_exchange"}

\* a string argument: empty, or the given value
Maybe(v) == {"", v}

TokenExchangeInputs ==
    [Resource : Maybe("https://api.example"), Audience : Maybe("aud"),
     Scope : Maybe("openid"), RequestedTokenType : Maybe("rtt"),
     SubjectToken : Maybe("st"), SubjectTokenType : Maybe("stt"),
     ActorToken : Maybe("at"), ActorTokenType : Maybe("att")]

\* the arguments of a builder call; those the builder does not take are empty
BuilderInputs(b) ==
    [ClientID : ClientIDs, ClientSecret : ClientSecrets, AuthMethod : AuthMethods,
     Code : IF b = "authorization_code" THEN Maybe("ac") ELSE {""},
     RedirectURI : IF b = "authorization_code" THEN Maybe("http://localhost:9555/cb") ELSE {""},
     CodeVerifier : IF b = "authorization_code" THEN Maybe("cv") ELSE {""},
     RefreshToken : IF b = "refresh_token" THEN Maybe("rt") ELSE {""},
     Scope : IF b \in {"refresh_token", "client_credentials"} THEN Maybe("openid") ELSE {""},
     DeviceCode : IF b = "device_code" THEN Maybe("dc") ELSE {""},
     Exchange : IF b = "token_exchange" THEN TokenExchangeInputs ELSE {NoTokenExchangeInput}]

\* the call of the builder b with the arguments in
Build(b, in) ==
    CASE b = "authorization_code" ->
            CreateAuthCodeTokenRequest(in.ClientID, in.ClientSecret, in.AuthMethod,
                                       in.Code, in.RedirectURI, in.CodeVerifier)
      [] b = "refresh_token" ->
            CreateRefreshTokenRequest(in.ClientID, in.ClientSecret, in.AuthMethod,
                                      in.RefreshToken, in.Scope)
      [] b = "client_credentials" ->
            CreateClientCredentialsRequest(in.ClientID, in.ClientSecret, in.AuthMethod,
                                           in.Scope)
      [] b = "device_code" ->
            CreateDeviceCodeTokenRequest(in.ClientID, in.ClientSecret, in.AuthMethod,
                                         in.DeviceCode)
      [] OTHER ->
            CreateTokenExchangeRequest(in.ClientID, in.ClientSecret, in.AuthMethod,
                                       in.Exchange)

\* the headers argument the callers of ExecuteTokenRequest pass: nil or an
\* empty map, or the map holding the flow's DPoP proof
CallerHeaders == {NoHeaders, Headers(NoAuthorization, Proof("POST", TokenEndpoint, 1))}

\* what ExecuteTokenRequest hands to PostForm
Sent(hdrs, params) == [headers |-> hdrs, params |-> params]

InitRequest ==
    /\ builder \in Builders
    /\ bInput \in BuilderInputs(builder)
    /\ built = NoTokenRequest
    /\ sent = <<>>
    /\ IdleFlow
    /\ IdleClassify
    /\ IdleURL
    /\ IdleValidate
    /\ IdleAuthCode
    /\ IdleCommand

\* the flow calls its builder
CallBuilder ==
    /\ builder \in Builders /\ built = NoTokenRequest
    /\ built' = Build(builder, bInput)
    /\ UNCHANGED <<flowVars, pureVars, cmdVars, builder, bInput, sent, validateVars, authVars>>

\* ExecuteTokenRequest on the built request, up to the call of PostForm
CallExecuteTokenRequest ==
    /\ builder \in Builders /\ built # NoTokenRequest
    /\ Len(sent) < MaxCalls
    /\ \E hdrs \in CallerHeaders :
          sent' = Append(sent, Sent(ExecuteTokenRequestHeaders(built, hdrs),
                                    ExecuteTokenRequestParams(built)))
    /\ built' = [built EXCEPT !.Params = ExecuteTokenRequestParams(built)]
    /\ UNCHANGED <<flowVars, pureVars, cmdVars, builder, bInput, validateVars, authVars>>

NextRequest == CallBuilder \/ CallExecuteTokenRequest

SpecRequest == InitRequest /\ [][NextRequest]_vars

-----------------------------------------------------------------------------
(* ValidateResponse on its own: every request with every callback *)

RequestStates == {"", "S1", "S2"}

CallbackStates == {"", "S1", "S2", "s1"}

Codes == {"", "ABC"}

ErrorMsgs == {"", "access_denied"}

ErrorDescriptions == {"", "User denied the request"}

AuthorizationCodeRequests ==
    {AuthorizationCodeRequest("test-client", st) : st \in RequestStates}

CallbackResponses ==
    {CallbackResponse(c, st, e, d) :
        c \in Codes, st \in CallbackStates, e \in ErrorMsgs, d \in ErrorDescriptions}

InitValidate ==
    /\ vReq \in AuthorizationCodeRequests \cup {NilRequest}
    /\ vResp \in CallbackResponses \cup {NilCallbackResponse}
    /\ vOut = NotValidated
    /\ IdleFlow
    /\ IdleClassify
    /\ IdleURL
    /\ IdleRequest
    /\ IdleAuthCode
    /\ IdleCommand

CallValidateResponse ==
    /\ aPc = "idle" /\ ~vOut.done
    /\ vOut' = ValidateResponse(vReq, vResp)
    /\ UNCHANGED <<flowVars, pureVars, cmdVars, reqVars, vReq, vResp, authVars>>

NextValidate == CallValidateResponse

SpecValidate == InitValidate /\ [][NextValidate]_vars

-----------------------------------------------------------------------------
(* ExecuteAuthorizationCodeRequest with the default dependencies *)

Callbacks == {"", "http://localhost:9555/callback", "ht tp://invalid"}

Endpoints == {"", "https://as.example/authorize", "ht tp://invalid"}

\* webflow.NewCallbackServer fails on a callback URL it cannot parse
NewCallbackServerFails(cb) == cb = "ht tp://invalid"

\* faulty variant: StartServer does not look at the context before it starts
PreconditionErrorNoContextCheck(cb, cancelled) ==
    IF cb = "" THEN Errorf("callback URL is required", <<>>)
    ELSE IF NewCallbackServerFails(cb)
    THEN Errorf("failed to create callback server", <<"parse">>)
    ELSE NoError

\* the checks StartServer makes before it starts the listener goroutine
PreconditionError(cb, cancelled) ==
    IF cb = "" THEN Errorf("callback URL is required", <<>>)
    ELSE IF cancelled THEN Errorf("context canceled", <<>>)
    ELSE IF NewCallbackServerFails(cb)
    THEN Errorf("failed to create callback server", <<"parse">>)
    ELSE NoError

\* the cases of StartServer's select that can proceed
SelectCases(chan, tm, cancelled) ==
    (IF chan # <<>> THEN {"serverErrChan"} ELSE {}) \cup
    (IF tm.timeout \/ cancelled THEN {"startupCtx.Done"} ELSE {}) \cup
    (IF tm.delay THEN {"time.After"} ELSE {})

\* what StartServer returns from the case its select took
SelectReturn(case) ==
    CASE case = "serverErrChan" ->
            StartReturn(FALSE, Errorf("callback server failed to start", <<"listen">>))
      [] case = "startupCtx.Done" ->
            StartReturn(FALSE, Errorf("server startup timed out", <<>>))
      [] OTHER -> StartReturn(TRUE, NoError)

\* faulty variant: the flow goes on after a failed StartServer
AfterStartServerIgnoresError(ret) == "build_url"

\* where ExecuteAuthorizationCodeRequest goes after StartServer returned
AfterStartServer(ret) == IF ret.err # NoError THEN "done" ELSE "build_url"

\* faulty variant: a browser that cannot be opened ends the attempt
AfterOpenURLFailureIsFatal(failed) == IF failed THEN "done" ELSE "wait_callback"

\* where ExecuteAuthorizationCodeRequest goes after OpenURL returned
AfterOpenURL(failed) == "wait_callback"

\* faulty variant: WaitForCallback returns no error when the wait failed
WaitForCallbackErrorDropped(cause) == NoError

\* the error WaitForCallback returns when server.WaitForCallback failed
WaitForCallbackError(cause) == Errorf("callback failed", <<cause>>)

\* faulty variant: the flow validates whatever WaitForCallback returned
AfterWaitForCallbackIgnoresError(err) == "validate"

\* where ExecuteAuthorizationCodeRequest goes after WaitForCallback returned
AfterWaitForCallback(err) == IF err # NoError THEN "done" ELSE "validate"

\* what the callback listener delivers in the attempt
DeliveredCallbacks ==
    {CallbackResponse(c, st, "", "") : c \in Codes, st \in {"S1", "S2"}}

\* the values the optional fields take when they are set
SetFields ==
    [State |-> "S1", RedirectURI |-> "http://localhost:9555/callback",
     Scope |-> "openid", Prompt |-> "login", AcrValues |-> "acr1",
     LoginHint |-> "user", MaxAge |-> "60", UILocales |-> "en",
     CodeChallengeMethod |-> "S256", CodeChallenge |-> "challenge",
     RequestURI |-> "urn:par:1"]

\* which optional fields are set: none, all, one, all but one
FieldSets ==
    {{}, FieldNames} \cup {{n} : n \in FieldNames} \cup {FieldNames \ {n} : n \in FieldNames}

CustomArgsChoices ==
    {NoCustomArgs, [custom_param |-> "custom_value"], [response_type |-> "token"],
     [scope |-> "offline_access"], [state |-> "S2"]}

AuthCodeRequests ==
    {AuthorizationCodeRequestFields(id, [n \in FieldNames |-> IF n \in S THEN SetFields[n]
                                                                     ELSE ""], c) :
        id \in {"", "test-client"}, S \in FieldSets, c \in CustomArgsChoices}

InitAuthCode ==
    /\ aPc = "start"
    /\ callback \in Callbacks
    /\ authEndpoint \in Endpoints
    /\ vReq \in AuthCodeRequests
    /\ vResp = NilCallbackResponse
    /\ vOut = NotValidated
    /\ listener = "none"
    /\ serverErrChan = <<>>
    /\ timers = NoTimers
    /\ startRet = NotStarted
    /\ calls = <<>>
    /\ authRet = NoAuthReturn
    /\ authURL = NotBuilt
    /\ IdleFlow
    /\ IdleClassify
    /\ IdleURL
    /\ IdleRequest
    /\ IdleCommand

\* the variables of the flows but the context and the browser
restFlowVars == <<flow, cfg, pc, headers, proofs, trace, interval, startInterval,
                  tokenReq, devResp, pollRet, runErr>>

\* StartServer up to its select: the precondition checks, the creation of
\* the server and the start of the listener goroutine
StartServer ==
    /\ aPc = "start"
    /\ calls' = Append(calls, "StartServer")
    /\ LET err == PreconditionError(callback, ctxCancelled)
       IN  IF err # NoError
           THEN /\ startRet' = StartReturn(FALSE, err)
                /\ aPc' = AfterStartServer(StartReturn(FALSE, err))
                /\ authRet' = AuthReturn(NilAuthorizationCodeResponse, err)
                /\ listener' = listener
           ELSE /\ listener' = "starting"
                /\ aPc' = "select"
                /\ UNCHANGED <<startRet, authRet>>
    /\ UNCHANGED <<flowVars, pureVars, cmdVars, reqVars, validateVars, callback,
                   authEndpoint, authURL, serverErrChan, timers>>

\* callbackServer.Start has bound the port and serves
ListenerBinds ==
    /\ listener = "starting"
    /\ listener' = "listening"
    /\ UNCHANGED <<flowVars, pureVars, cmdVars, reqVars, validateVars, aPc, callback,
                   authEndpoint, authURL, serverErrChan, timers, startRet, calls, authRet>>

\* callbackServer.Start returns an error, which the goroutine sends
ListenerFails ==
    /\ listener = "starting"
    /\ listener' = "failed"
    /\ serverErrChan' = Append(serverErrChan, "listen")
    /\ UNCHANGED <<flowVars, pureVars, cmdVars, reqVars, validateVars, aPc, callback,
                   authEndpoint, authURL, timers, startRet, calls, authRet>>

\* callbackServer.Start runs on the context of the attempt: it stops serving
\* once that context is cancelled
ListenerStops ==
    /\ listener = "listening" /\ ctxCancelled
    /\ listener' = "closed"
    /\ UNCHANGED <<flowVars, pureVars, cmdVars, reqVars, validateVars, aPc, callback,
                   authEndpoint, authURL, serverErrChan, timers, startRet, calls, authRet>>

\* defaultStartDelay has passed since the select was entered
DelayElapses ==
    /\ aPc = "select" /\ ~timers.delay
    /\ timers' = [timers EXCEPT !.delay = TRUE]
    /\ UNCHANGED <<flowVars, pureVars, cmdVars, reqVars, validateVars, aPc, callback,
                   authEndpoint, authURL, listener, serverErrChan, startRet, calls, authRet>>

\* defaultServerStartupTimeout has passed, which is later than the delay
StartupWindowExpires ==
    /\ aPc = "select" /\ timers.delay /\ ~timers.timeout
    /\ timers' = [timers EXCEPT !.timeout = TRUE]
    /\ UNCHANGED <<flowVars, pureVars, cmdVars, reqVars, validateVars, aPc, callback,
                   authEndpoint, authURL, listener, serverErrChan, startRet, calls, authRet>>

\* the select takes one of the cases that can proceed and StartServer
\* returns; ExecuteAuthorizationCodeRequest returns the error if there is one
StartServerReturns ==
    /\ aPc = "select"
    /\ \E case \in SelectCases(serverErrChan, timers, ctxCancelled) :
        /\ startRet' = SelectReturn(case)
        /\ serverErrChan' = IF case = "serverErrChan" THEN Tail(serverErrChan)
                            ELSE serverErrChan
        /\ aPc' = AfterStartServer(SelectReturn(case))
        /\ authRet' = IF AfterStartServer(SelectReturn(case)) = "done"
                      THEN AuthReturn(NilAuthorizationCodeResponse, SelectReturn(case).err)
                      ELSE authRet
    /\ UNCHANGED <<flowVars, pureVars, cmdVars, reqVars, validateVars, callback,
                   authEndpoint, authURL, listener, timers, calls>>

\* URLBuilder.BuildAuthorizationURL; ExecuteAuthorizationCodeRequest returns
\* its error if there is one
BuildAuthorizationURL ==
    /\ aPc = "build_url"
    /\ calls' = Append(calls, "BuildAuthorizationURL")
    /\ authURL' = AuthorizationURL(authEndpoint, vReq)
    /\ IF AuthorizationURL(authEndpoint, vReq).err # NoError
       THEN /\ aPc' = "done"
            /\ authRet' = AuthReturn(NilAuthorizationCodeResponse,
                                     AuthorizationURL(authEndpoint, vReq).err)
       ELSE /\ aPc' = "open_browser"
            /\ authRet' = authRet
    /\ UNCHANGED <<flowVars, pureVars, cmdVars, reqVars, validateVars, callback,
                   authEndpoint, listener, serverErrChan, timers, startRet>>

\* BrowserLauncher.OpenURL: it may fail, and then the error is logged
OpenURL ==
    /\ aPc = "open_browser"
    /\ calls' = Append(calls, "OpenURL")
    /\ \E failed \in BOOLEAN :
        /\ browser' = [opened |-> TRUE, url |-> authURL.endpoint, failed |-> failed]
        /\ aPc' = AfterOpenURL(failed)
        /\ authRet' = IF AfterOpenURL(failed) = "done"
                      THEN AuthReturn(NilAuthorizationCodeResponse,
                                      Errorf("unable to open browser", <<>>))
                      ELSE authRet
    /\ UNCHANGED <<restFlowVars, ctxCancelled, pureVars, cmdVars, reqVars, validateVars,
                   callback, authEndpoint, authURL, listener, serverErrChan, timers,
                   startRet>>

\* ServerManager.WaitForCallback: a listening server delivers one callback
\* and closes, a cancelled context ends the wait with an error
WaitForCallback ==
    /\ aPc = "wait_callback"
    /\ calls' = Append(calls, "WaitForCallback")
    /\ \/ /\ listener = "listening"
          /\ vResp' \in DeliveredCallbacks
          /\ listener' = "closed"
          /\ aPc' = AfterWaitForCallback(NoError)
          /\ authRet' = authRet
       \/ /\ ctxCancelled
          /\ vResp' = vResp
          /\ listener' = IF listener = "listening" THEN "closed" ELSE listener
          /\ aPc' = AfterWaitForCallback(WaitForCallbackError("context canceled"))
          /\ authRet' = IF AfterWaitForCallback(WaitForCallbackError("context canceled"))
                           = "done"
                        THEN AuthReturn(NilAuthorizationCodeResponse,
                                        WaitForCallbackError("context canceled"))
                        ELSE authRet
    /\ UNCHANGED <<flowVars, pureVars, cmdVars, reqVars, vReq, vOut, callback,
                   authEndpoint, authURL, serverErrChan, timers, startRet>>

\* ResponseValidator.ValidateResponse and the return of the attempt
AuthCodeValidate ==
    /\ aPc = "validate"
    /\ calls' = Append(calls, "ValidateResponse")
    /\ vOut' = ValidateResponse(vReq, vResp)
    /\ authRet' = AuthReturn(ValidateResponse(vReq, vResp).resp,
                             ValidateResponse(vReq, vResp).err)
    /\ aPc' = "done"
    /\ UNCHANGED <<flowVars, pureVars, cmdVars, reqVars, vReq, vResp, callback,
                   authEndpoint, authURL, listener, serverErrChan, timers, startRet>>

\* the signal watcher or a deadline cancels the context of the attempt
CancelAuthCode ==
    /\ aPc \notin {"idle", "done"}
    /\ ~ctxCancelled
    /\ ctxCancelled' = TRUE
    /\ UNCHANGED <<restFlowVars, browser, pureVars, sideVars>>

NextAuthCode ==
    \/ StartServer
    \/ ListenerBinds
    \/ ListenerFails
    \/ ListenerStops
    \/ DelayElapses
    \/ StartupWindowExpires
    \/ StartServerReturns
    \/ BuildAuthorizationURL
    \/ OpenURL
    \/ WaitForCallback
    \/ AuthCodeValidate
    \/ CancelAuthCode

SpecAuthCode == InitAuthCode /\ [][NextAuthCode]_vars

-----------------------------------------------------------------------------
(* The flag parsers of the device and token_refresh commands *)

\* the flag values of a device command line; the flags the parser does not
\* check keep one value
DeviceFlags ==
    [parseError : BOOLEAN, IssuerURL : Maybe("https://as.example"),
     ClientID : Maybe("cid"), Scope : Maybe("openid"), RefreshToken : {""},
     Stdin : {Stdin("eof", "")}, DPoP : BOOLEAN,
     DPoPPrivateKeyFile : Maybe("priv.pem"), DPoPPublicKeyFile : Maybe("pub.pem")]

\* the flag values of a token_refresh command line, and standard input when
\* the refresh token is "-"
TokenRefreshFlags ==
    {a \in [parseError : BOOLEAN, IssuerURL : Maybe("https://as.example"),
            ClientID : Maybe("cid"), Scope : {""}, RefreshToken : {"", "rt1", "-"},
            Stdin : {Stdin("eof", ""), Stdin("error", ""), Stdin("line", ""),
                     Stdin("line", "rt2")},
            DPoP : BOOLEAN, DPoPPrivateKeyFile : Maybe("priv.pem"),
            DPoPPublicKeyFile : Maybe("pub.pem")] :
        a.RefreshToken # "-" => a.Stdin = Stdin("eof", "")}

InitFlags ==
    /\ fCmd \in {"device", "token_refresh"}
    /\ fArgs \in IF fCmd = "device" THEN DeviceFlags ELSE TokenRefreshFlags
    /\ fRet = NotParsedFlags
    /\ rPc = "idle"
    /\ signalChan = NoChannel
    /\ watcher = NoWatcher
    /\ rLog = <<>>
    /\ rCancels = <<>>
    /\ rExit = NotExited
    /\ rSignals = <<>>
    /\ rSteps = <<>>
    /\ IdleFlow
    /\ IdleClassify
    /\ IdleURL
    /\ IdleRequest
    /\ IdleValidate
    /\ IdleAuthCode

CallParseDeviceFlags ==
    /\ fCmd = "device" /\ ~fRet.returned
    /\ fRet' = parseDeviceFlags(fArgs)
    /\ UNCHANGED <<flowVars, pureVars, reqVars, validateVars, authVars, fCmd, fArgs,
                   signalVars>>

CallParseTokenRefreshFlags ==
    /\ fCmd = "token_refresh" /\ ~fRet.returned
    /\ fRet' = parseTokenRefreshFlags(fArgs)
    /\ UNCHANGED <<flowVars, pureVars, reqVars, validateVars, authVars, fCmd, fArgs,
                   signalVars>>

NextFlags == CallParseDeviceFlags \/ CallParseTokenRefreshFlags

SpecFlags == InitFlags /\ [][NextFlags]_vars

-----------------------------------------------------------------------------
(* RunCommand from the start of the signal goroutine to the end of the process *)

MaxSignals == 2

Signals == {"interrupt", "terminated"}

InitSignal ==
    /\ rPc = "run"
    /\ signalChan = NewChannel
    /\ watcher = [pc |-> "receive", sig |-> ""]
    /\ rLog = <<>>
    /\ rCancels = <<>>
    /\ rExit = NotExited
    /\ rSignals = <<>>
    /\ rSteps = <<Step("Configure", "nil")>>
    /\ fCmd = "none"
    /\ fArgs = NoFlags
    /\ fRet = NotParsedFlags
    /\ IdleFlow
    /\ IdleClassify
    /\ IdleURL
    /\ IdleRequest
    /\ IdleValidate
    /\ IdleAuthCode

\* the process is sent SIGINT or SIGTERM. While signalChan is registered the
\* runtime sends the signal to it without blocking, so that it is dropped
\* when the buffer is full; after signal.Stop the signal ends the process,
\* whose exit status is then 128 plus the number of the signal
SignalDelivered ==
    /\ rPc \notin {"idle", "exited"}
    /\ Len(rSignals) < MaxSignals
    /\ \E sig \in Signals :
        /\ rSignals' = Append(rSignals, sig)
        /\ IF signalChan.notify
           THEN /\ signalChan' = IF Len(signalChan.buf) < 1
                                 THEN [signalChan EXCEPT !.buf = Append(@, sig)]
                                 ELSE signalChan
                /\ UNCHANGED <<rPc, rExit>>
           ELSE /\ rPc' = "exited"
                /\ rExit' = [rExit EXCEPT !.code = IF sig = "interrupt" THEN 130
                                                   ELSE 143]
                /\ UNCHANGED signalChan
    /\ UNCHANGED <<flowVars, pureVars, reqVars, validateVars, authVars, flagVars,
                   watcher, rLog, rCancels, rSteps>>

\* the goroutine's receive returns
WatcherReceives ==
    /\ rPc # "exited"
    /\ watcher.pc = "receive"
    /\ Receive(signalChan).ready
    /\ watcher' = [pc |-> "log", sig |-> Receive(signalChan).sig]
    /\ signalChan' = [signalChan EXCEPT !.buf = IF @ # <<>> THEN Tail(@) ELSE @]
    /\ UNCHANGED <<flowVars, pureVars, reqVars, validateVars, authVars, flagVars,
                   rPc, rLog, rCancels, rExit, rSignals, rSteps>>

\* the goroutine logs what it received
WatcherLogs ==
    /\ rPc # "exited"
    /\ watcher.pc = "log"
    /\ rLog' = Append(rLog, [line |-> "received signal", sig |-> watcher.sig])
    /\ watcher' = [watcher EXCEPT !.pc = "cancel"]
    /\ UNCHANGED <<flowVars, pureVars, reqVars, validateVars, authVars, flagVars,
                   rPc, signalChan, rCancels, rExit, rSignals, rSteps>>

\* the goroutine calls cancel and ends
WatcherCancels ==
    /\ rPc # "exited"
    /\ watcher.pc = "cancel"
    /\ rCancels' = Append(rCancels, "watcher")
    /\ watcher' = [watcher EXCEPT !.pc = "done"]
    /\ UNCHANGED <<flowVars, pureVars, reqVars, validateVars, authVars, flagVars,
                   rPc, signalChan, rLog, rExit, rSignals, rSteps>>

\* prepareOIDCConfig fails, or command.Run returns: RunCommand logs the
\* outcome and fixes its exit code; the deferred calls are next
CommandReturns ==
    /\ rPc = "run"
    /\ \E outcome \in RunOutcomes(rCancels # <<>>) :
        /\ rExit' = [run |-> outcome, code |-> ExitCode(outcome)]
        /\ rLog' = rLog \o OutcomeLog(outcome)
        /\ rSteps' = rSteps \o StepsOf(outcome)
    /\ rPc' = "defer_cancel"
    /\ UNCHANGED <<flowVars, pureVars, reqVars, validateVars, authVars, flagVars,
                   signalChan, watcher, rCancels, rSignals>>

\* the deferred cancel(), registered last and run first
DeferredCancel ==
    /\ rPc = "defer_cancel"
    /\ rCancels' = Append(rCancels, "defer")
    /\ rPc' = "defer_stop"
    /\ UNCHANGED <<flowVars, pureVars, reqVars, validateVars, authVars, flagVars,
                   signalChan, watcher, rLog, rExit, rSignals, rSteps>>

\* signal.Stop(signalChan) in the deferred function
DeferredStop ==
    /\ rPc = "defer_stop"
    /\ signalChan' = [signalChan EXCEPT !.notify = FALSE]
    /\ rPc' = "defer_close"
    /\ UNCHANGED <<flowVars, pureVars, reqVars, validateVars, authVars, flagVars,
                   watcher, rLog, rCancels, rExit, rSignals, rSteps>>

\* close(signalChan) in the deferred function; RunCommand returns
DeferredClose ==
    /\ rPc = "defer_close"
    /\ signalChan' = [signalChan EXCEPT !.closed = TRUE]
    /\ rPc' = "returned"
    /\ UNCHANGED <<flowVars, pureVars, reqVars, validateVars, authVars, flagVars,
                   watcher, rLog, rCancels, rExit, rSignals, rSteps>>

\* the caller of RunCommand ends the process, and the goroutine with it
ProcessExits ==
    /\ rPc = "returned"
    /\ rPc' = "exited"
    /\ UNCHANGED <<flowVars, pureVars, reqVars, validateVars, authVars, flagVars,
                   signalChan, watcher, rLog, rCancels, rExit, rSignals, rSteps>>

NextSignal ==
    \/ SignalDelivered
    \/ WatcherReceives
    \/ WatcherLogs
    \/ WatcherCancels
    \/ CommandReturns
    \/ DeferredCancel
    \/ DeferredStop
    \/ DeferredClose
    \/ ProcessExits

SpecSignal == InitSignal /\ [][NextSignal]_vars

-----------------------------------------------------------------------------
(* Properties of the classifiers *)

Variants == {"Success", "OAuthProtocolError", "HTTPFailure", "JSONParsingError"}

SuccessRange == 200..299

\* the body is text that is no JSON, or a JSON value no mapping can hold
NotAMapping(body) == body.kind \notin {"object", "null"}

\* the optional description: the member's string, or none
DescriptionOf(f) == IF f["error_description"].t = "string" THEN f["error_description"].s ELSE ""

\* C9: ParseTokenResponse yields exactly one variant per response; for a body
\* that is a JSON object, a 2xx status yields Success with the decoded
\* mapping, a non-2xx status with a string error member yields
\* OAuthProtocolError with that code, the optional description, the status
\* and the raw body, and a non-2xx status with no error member or one that is
\* no string yields HTTPFailure with status and raw body.
C9_TokenClassification ==
    (pTok.done /\ pBody.kind = "object") =>
        LET f == pBody.fields
            r == pTok.r
        IN  /\ r.class \in Variants
            /\ pStatus \in SuccessRange => (r.class = "Success" /\ r.data = f)
            /\ (pStatus \notin SuccessRange /\ f["error"].t = "string") =>
                  /\ r.class = "OAuthProtocolError"
                  /\ r.code = f["error"].s
                  /\ r.desc = DescriptionOf(f)
                  /\ r.status = pStatus
                  /\ r.raw = pBody
            /\ (pStatus \notin SuccessRange /\ f["error"].t # "string") =>
                  /\ r.class = "HTTPFailure"
                  /\ r.status = pStatus
                  /\ r.raw = pBody

\* a 401 with a string error and a description was classified, and so was a
\* 500 whose error member is a number
C9_Witness ==
    /\ pTok.done /\ pBody.kind = "object"
    /\ \/ /\ pStatus = 401
          /\ pBody.fields["error"] = JString("invalid_request")
          /\ pBody.fields["error_description"].t = "string"
          /\ pTok.r.class = "OAuthProtocolError"
       \/ /\ pStatus = 500
          /\ pBody.fields["error"].t = "number"
          /\ pTok.r.class = "HTTPFailure"

MistypedMember(body) ==
    /\ body.kind = "object"
    /\ \/ \E k \in {"device_code", "user_code", "verification_uri",
                    "verification_uri_complete"} :
              body.fields[k].t \notin {"absent", "null", "string"}
       \/ \E k \in {"expires_in", "interval"} :
              body.fields[k].t \notin {"absent", "null", "number"}

-----------------------------------------------------------------------------
(* Properties of the polling loop *)

\* positions of the token requests in the trace
TokenRequests == RequestsTo(trace, TokenEndpoint)

Non2xx(resp) == resp.transport = "ok" /\ resp.status \notin SuccessRange

\* a non-2xx response whose JSON object has the given error code
HasError(resp, code) ==
    /\ Non2xx(resp)
    /\ resp.body.kind = "object"
    /\ resp.body.fields["error"] = JString(code)

Transient(resp) == HasError(resp, "authorization_pending") \/ HasError(resp, "slow_down")

\* the step in which the response to the request in flight arrives, and the
\* response has the given error code
JustAnswered(code) ==
    /\ pc = "poll_await" /\ pc' # "poll_await"
    /\ HasError(trace'[Len(trace)].resp, code)

\* the loop is asleep after a response with the given error code
AsleepAfter(code) ==
    /\ pc = "sleep"
    /\ Len(trace) >= 2
    /\ HasError(trace[Len(trace) - 1].resp, code)

IsTokenRequest(e) == e.kind = "request" /\ e.endpoint = TokenEndpoint

\* C1: on authorization_pending the loop keeps polling: the interval stays
\* as it is, the wait that follows lasts exactly that interval, and after
\* the wait the loop calls ExecuteTokenRequest again, which sends the next
\* token request.
C1_PendingKeepsInterval ==
    [][/\ JustAnswered("authorization_pending") =>
            /\ pc' = "sleep"
            /\ interval' = interval
            /\ Len(trace') = Len(trace) + 1
            /\ trace'[Len(trace')].kind = "wait"
            /\ trace'[Len(trace')].dur = interval
       /\ (AsleepAfter("authorization_pending") /\ pc' # pc) =>
            /\ pc' = "poll_send"
            /\ interval' = interval
            /\ trace' = trace
       /\ (pc = "poll_send" /\ pc' # pc /\ ~ctxCancelled) =>
            /\ Len(trace') = Len(trace) + 1
            /\ IsTokenRequest(trace'[Len(trace')])]_vars

\* a token request answered authorization_pending, the wait of one interval
\* and the token request after it
C1_Witness ==
    \E i \in TokenRequests :
        /\ HasError(trace[i].resp, "authorization_pending")
        /\ i + 2 <= Len(trace)
        /\ trace[i + 1].kind = "wait" /\ trace[i + 1].dur = interval
        /\ IsTokenRequest(trace[i + 2])

\* the interval the loop starts with, from the argument it was called with
EffectiveInitialInterval == IF startInterval > 0 THEN startInterval ELSE 5

\* number of slow_down responses received before position j of the trace
SlowDownsBefore(j) ==
    Cardinality({i \in TokenRequests : i < j /\ HasError(trace[i].resp, "slow_down")})

\* C2: every wait lasts the effective initial interval plus 5 seconds for
\* each slow_down received before it, the one it answers included, and the
\* interval in force is the effective initial interval plus 5 per slow_down.
C2_SlowDownAddsFive ==
    (flow = "device" /\ browser.opened) =>
        /\ \A j \in Waits(trace) :
              trace[j].dur = EffectiveInitialInterval + 5 * SlowDownsBefore(j)
        /\ interval = EffectiveInitialInterval + 5 * SlowDownsBefore(Len(trace) + 1)

\* two slow_down responses, and the token request after the second wait
C2_Witness ==
    \E j \in Waits(trace) :
        /\ SlowDownsBefore(j) = 2
        /\ trace[j].dur = EffectiveInitialInterval + 10
        /\ j < Len(trace)
        /\ IsTokenRequest(trace[j + 1])

\* C3: a cancellation that arrives during the wait between two attempts
\* ends the loop at once: the next step of the flow is its return with a
\* cancellation error, and no request is sent.
C3_CancelInterruptsWait ==
    [][(pc = "sleep" /\ ctxCancelled /\ pc' # pc) =>
            /\ pc' = "done"
            /\ pollRet'.returned /\ pollRet'.canceled
            /\ runErr'.canceled
            /\ trace' = trace]_vars

\* C4: with DPoP enabled, every token request carries a proof that was
\* requested for POST and the token endpoint, no two token requests carry
\* the same proof, and as many proofs were requested as token requests sent.
C4_EveryTokenRequestCarriesProof ==
    cfg.DPoP =>
        /\ \A i \in TokenRequests :
              /\ trace[i].headers.DPoP # NoProof
              /\ trace[i].headers.DPoP.method = "POST"
              /\ trace[i].headers.DPoP.url = TokenEndpoint
              /\ trace[i].headers.DPoP.serial \in 1..Len(proofs)
              /\ proofs[trace[i].headers.DPoP.serial].ok
        /\ \A i, j \in TokenRequests :
              i # j => trace[i].headers.DPoP # trace[j].headers.DPoP
        /\ TokenRequests # {} => Len(proofs) = Cardinality(TokenRequests)

\* a result that ends the loop with an error
Fatal(resp) ==
    \/ resp.transport \in {"network", "canceled"}
    \/ Non2xx(resp) /\ ~Transient(resp)

FatalClass(resp) ==
    CASE resp.transport # "ok" -> "TransportError"
      [] NotAMapping(resp.body) -> "JSONParsingError"
      [] resp.body.fields["error"].t = "string" -> "OAuthProtocolError"
      [] OTHER -> "HTTPFailure"

\* C5: a token request of the polling loop that is answered by any other
\* OAuth error, a non-2xx response without a string error member, a non-2xx
\* response with an undecodable body or a transport error is the last thing
\* the loop does: it has returned that error, and nothing follows in the trace.
C5_OtherResultsAreFatal ==
    flow = "device" =>
        \A i \in TokenRequests :
            Fatal(trace[i].resp) =>
                /\ i = Len(trace)
                /\ pc = "done"
                /\ pollRet.returned
                /\ pollRet.class = FatalClass(trace[i].resp)
                /\ pollRet.resp = trace[i].resp
                /\ runErr.class = FatalClass(trace[i].resp)
                /\ runErr.stage = "polling token request"

\* the loop ended on an HTTP failure after one retry
C5_Witness ==
    /\ flow = "device" /\ pc = "done"
    /\ Cardinality(TokenRequests) = 2
    /\ Fatal(trace[Len(trace)].resp)
    /\ pollRet.class = "HTTPFailure"
    /\ trace[Len(trace)].resp.body.fields["error"].t = "number"

Is2xx(resp) == resp.transport = "ok" /\ resp.status \in SuccessRange

RequestsInFlight == {i \in 1..Len(trace) : trace[i].resp = InFlight}

\* C6: the loop never has two requests in flight; it starts with a request;
\* every transient answer is followed by exactly one wait and then, if
\* anything, by the next request; a 2xx answer ends the loop, which returns
\* that response without error, so k transient answers and then a 2xx make
\* k + 1 requests and k waits.
C6_SequentialPolling ==
    flow = "device" =>
        /\ Cardinality(RequestsInFlight) <= 1
        /\ \A j \in Waits(trace) : j > 2 /\ IsTokenRequest(trace[j - 1])
        /\ \A i \in TokenRequests :
              /\ Transient(trace[i].resp) =>
                    /\ i < Len(trace) /\ trace[i + 1].kind = "wait"
                    /\ i + 2 <= Len(trace) => IsTokenRequest(trace[i + 2])
              /\ Is2xx(trace[i].resp) =>
                    /\ i = Len(trace)
                    /\ pollRet.returned /\ pollRet.class = "Success"
                    /\ pollRet.resp = trace[i].resp
                    /\ \A k \in TokenRequests : k < i => Transient(trace[k].resp)
                    /\ Cardinality(TokenRequests)
                          = Cardinality({k \in TokenRequests : Transient(trace[k].resp)}) + 1
                    /\ Cardinality(Waits(trace)) = Cardinality(TokenRequests) - 1

\* two transient answers, then a 2xx: three requests and two waits
C6_Witness ==
    /\ flow = "device" /\ pollRet.returned /\ pollRet.class = "Success"
    /\ Cardinality(TokenRequests) = 3
    /\ Cardinality(Waits(trace)) = 2
    /\ Is2xx(trace[Len(trace)].resp)

\* C7: while the loop runs the interval is at least the effective initial
\* interval and at least 1, and a step changes it only by adding 5 when a
\* slow_down arrives.
C7_IntervalNeverDecreases ==
    /\ []((flow = "device" /\ browser.opened) =>
              (interval >= EffectiveInitialInterval /\ interval >= 1))
    /\ [][browser.opened =>
              \/ interval' = interval
              \/ interval' = interval + 5 /\ JustAnswered("slow_down")]_vars

\* the interval has grown by a slow_down from an initial interval of 2
C7_Witness ==
    /\ flow = "device" /\ browser.opened
    /\ startInterval = 2 /\ interval = 7
    /\ pc = "sleep"

\* the interval member of the device-authorization response Run received
IntervalMember == trace[1].resp.body.fields["interval"]

\* C8: the loop starts with the interval of the device-authorization
\* response when that is greater than 0, and with 5 when it is zero,
\* negative or absent.
C8_InitialInterval ==
    (flow = "device" /\ browser.opened /\ SlowDownsBefore(Len(trace) + 1) = 0) =>
        /\ (IntervalMember.t = "number" /\ IntervalMember.n > 0) =>
              interval = IntervalMember.n
        /\ (IntervalMember.t = "number" /\ IntervalMember.n <= 0) => interval = 5
        /\ IntervalMember.t = "absent" => interval = 5

\* polling started after a response with interval 0, and the first wait
\* lasted 5
C8_Witness ==
    /\ flow = "device" /\ browser.opened
    /\ IntervalMember = JNumber(0)
    /\ interval = 5
    /\ Waits(trace) # {} /\ trace[3].kind = "wait" /\ trace[3].dur = 5

-----------------------------------------------------------------------------
(* Properties of the builders and of ExecuteTokenRequest *)

Has(p, k) == k \in DOMAIN p

\* the key is present with the value v and no other
Only(p, k, v) == Has(p, k) /\ p[k] = <<v>>

\* C12: every request ExecuteTokenRequest sends has the combination of its
\* auth method: Basic has the Authorization header Basic
\* base64(clientID:clientSecret) and neither client_id nor client_secret in
\* the body; Post has client_id, and client_secret exactly when the secret is
\* non-empty; None has client_id and no client_secret; no request has both
\* a Basic Authorization header and a credential in the body.
C12_AuthMethodCombination ==
    \A i \in 1..Len(sent) :
        LET p == sent[i].params
            a == sent[i].headers.Authorization
            id == bInput.ClientID
            secret == bInput.ClientSecret
        IN  /\ bInput.AuthMethod = "client_secret_basic" =>
                  /\ a = [scheme |-> "Basic", cred |-> Base64(<<id, ":", secret>>)]
                  /\ ~Has(p, "client_id") /\ ~Has(p, "client_secret")
            /\ bInput.AuthMethod = "client_secret_post" =>
                  /\ Only(p, "client_id", id)
                  /\ Has(p, "client_secret") <=> secret # ""
                  /\ secret # "" => Only(p, "client_secret", secret)
            /\ bInput.AuthMethod = "none" =>
                  /\ Only(p, "client_id", id)
                  /\ ~Has(p, "client_secret")
            /\ ~(a.scheme = "Basic" /\ (Has(p, "client_id") \/ Has(p, "client_secret")))

\* a Post request without secret was sent: client_id and no client_secret
C12_Witness ==
    /\ Len(sent) >= 1
    /\ bInput.AuthMethod = "client_secret_post" /\ bInput.ClientSecret = ""
    /\ Only(sent[1].params, "client_id", "cid")
    /\ ~Has(sent[1].params, "client_secret")
    /\ sent[1].headers.Authorization.scheme = ""

\* the required parameters of a grant, each with the input it is made from
RequiredOf(b, in) ==
    CASE b = "authorization_code" ->
            {<<"code", in.Code>>, <<"redirect_uri", in.RedirectURI>>}
      [] b = "refresh_token" -> {<<"refresh_token", in.RefreshToken>>}
      [] b = "client_credentials" -> {}
      [] b = "device_code" -> {<<"device_code", in.DeviceCode>>}
      [] b = "token_exchange" ->
            {<<"subject_token", in.Exchange.SubjectToken>>,
             <<"subject_token_type", in.Exchange.SubjectTokenType>>}
      [] OTHER -> {}

\* the optional parameters of a grant, each with the input it is made from
OptionalOf(b, in) ==
    CASE b = "authorization_code" -> {<<"code_verifier", in.CodeVerifier>>}
      [] b = "refresh_token" -> {<<"scope", in.Scope>>}
      [] b = "client_credentials" -> {<<"scope", in.Scope>>}
      [] b = "device_code" -> {}
      [] b = "token_exchange" ->
            {<<"resource", in.Exchange.Resource>>,
             <<"audience", in.Exchange.Audience>>,
             <<"scope", in.Exchange.Scope>>,
             <<"requested_token_type", in.Exchange.RequestedTokenType>>,
             <<"actor_token", in.Exchange.ActorToken>>,
             <<"actor_token_type", in.Exchange.ActorTokenType>>}
      [] OTHER -> {}

GrantTypeOf(b) ==
    CASE b = "authorization_code" -> "authorization_code"
      [] b = "refresh_token" -> "refresh_token"
      [] b = "client_credentials" -> "client_credentials"
      [] b = "device_code" -> "urn:ietf:params:oauth:grant-type:device_code"
      [] b = "token_exchange" -> "urn:ietf:params:oauth:grant-type:token-exchange"
      [] OTHER -> ""

\* C14: the TokenRequest of a builder holds the registered identifier of its
\* grant, and every request ExecuteTokenRequest sends carries exactly one
\* grant_type, that identifier, also when the parameters held a grant_type
\* before the call.
C14_GrantTypeSet ==
    /\ built # NoTokenRequest => built.GrantType = GrantTypeOf(builder)
    /\ \A i \in 1..Len(sent) : Only(sent[i].params, "grant_type", GrantTypeOf(builder))

\* a device code request was sent twice, the second time with the
\* grant_type of the first call in its parameters
C14_Witness ==
    /\ builder = "device_code" /\ Len(sent) = 2
    /\ Only(sent[1].params, "grant_type", "urn:ietf:params:oauth:grant-type:device_code")
    /\ Only(sent[2].params, "grant_type", "urn:ietf:params:oauth:grant-type:device_code")

\* the value last written for a key of the parameters
LastWritten(k) ==
    CASE k = "grant_type" -> GrantTypeOf(builder)
      [] k = "client_id" -> bInput.ClientID
      [] k = "client_secret" -> bInput.ClientSecret
      [] OTHER -> (CHOOSE kv \in RequiredOf(builder, bInput) \cup OptionalOf(builder, bInput) :
                      kv[1] = k)[2]

GrantKeys ==
    {kv[1] : kv \in RequiredOf(builder, bInput) \cup OptionalOf(builder, bInput)}

\* C15: after the builder and after every ExecuteTokenRequest call, each
\* key of the parameter mapping is a grant parameter, grant_type, client_id
\* or client_secret, and has exactly one value, the one last written.
C15_NoKeyTwice ==
    built # NoTokenRequest =>
        \A k \in DOMAIN built.Params :
            /\ k \in GrantKeys \cup {"grant_type", "client_id", "client_secret"}
            /\ Len(built.Params[k]) = 1
            /\ built.Params[k][1] = LastWritten(k)

\* a token exchange request with a scope was executed twice with Post and a
\* secret
C15_Witness ==
    /\ builder = "token_exchange" /\ Len(sent) = 2
    /\ bInput.AuthMethod = "client_secret_post" /\ bInput.ClientSecret = "sec"
    /\ bInput.Exchange.Scope = "openid"
    /\ {"grant_type", "client_id", "client_secret", "scope", "subject_token",
        "subject_token_type"} \subseteq DOMAIN built.Params
    /\ \A k \in DOMAIN built.Params : Len(built.Params[k]) = 1

-----------------------------------------------------------------------------
(* Properties of ValidateResponse *)

\* ValidateResponse ran on a request and a callback response that exist
ValidatedPair == vOut.done /\ ~vReq.nil /\ ~vResp.nil

\* C16: when the request's state is non-empty and the callback's state is
\* not equal to it, ValidateResponse returns the state-mismatch error, which
\* names both states, and no AuthorizationCodeResponse; a response is
\* returned only when the request's state is empty or equal to the
\* callback's.
C16_StateMismatchFails ==
    ValidatedPair =>
        /\ (vReq.State # "" /\ vResp.State # vReq.State) =>
              /\ vOut.resp.nil
              /\ vOut.err = [kind |-> "state mismatch", args |-> <<vReq.State, vResp.State>>]
        /\ ~vOut.resp.nil => (vReq.State = "" \/ vResp.State = vReq.State)

\* a callback with a code whose state differs from the request's only in
\* the case of a letter was refused
C16_Witness ==
    /\ ValidatedPair
    /\ vReq.State = "S1" /\ vResp.State = "s1" /\ vResp.Code = "ABC"
    /\ vOut.resp.nil /\ vOut.err.kind = "state mismatch"

\* C17: when the request's state is empty, every callback with a non-empty
\* code succeeds whatever its state is, and the response returned has the
\* callback's code and the empty string as state.
C17_EmptyRequestStateAcceptsAny ==
    (ValidatedPair /\ vReq.State = "" /\ vResp.Code # "") =>
        /\ vOut.err = [kind |-> "", args |-> <<>>]
        /\ ~vOut.resp.nil
        /\ vOut.resp.Code = vResp.Code
        /\ vOut.resp.State = ""

\* a callback with state S2 was accepted for a request without state
C17_Witness ==
    /\ ValidatedPair
    /\ vReq.State = "" /\ vResp.State = "S2" /\ vResp.Code = "ABC"
    /\ ~vOut.resp.nil /\ vOut.resp.Code = "ABC" /\ vOut.resp.State = ""

\* C18 as stated: whenever the callback's code is empty, whatever the two
\* states are, ValidateResponse returns no response and an error made of
\* the callback's error and error_description.
C18_MissingCodeSurfacesError ==
    (ValidatedPair /\ vResp.Code = "") =>
        /\ vOut.resp.nil
        /\ vOut.err = [kind |-> "authorization failed",
                       args |-> <<vResp.ErrorMsg, vResp.ErrorDescription>>]

\* the state check of ValidateResponse lets the callback through
StateCheckPasses == vReq.State = "" \/ vResp.State = vReq.State

\* C18 amended: whenever the callback's code is empty ValidateResponse
\* returns no response and an error; the error is made of the callback's
\* error and error_description when the request's state is empty or equal
\* to the callback's, and is the state-mismatch error otherwise.
C18_MissingCodeFails ==
    (ValidatedPair /\ vResp.Code = "") =>
        /\ vOut.resp.nil
        /\ vOut.err.kind # ""
        /\ StateCheckPasses =>
              vOut.err = [kind |-> "authorization failed",
                          args |-> <<vResp.ErrorMsg, vResp.ErrorDescription>>]
        /\ ~StateCheckPasses =>
              vOut.err = [kind |-> "state mismatch", args |-> <<vReq.State, vResp.State>>]

\* a callback without code, with the request's state, access_denied and a
\* description was refused with both in the error
C18_Witness ==
    /\ ValidatedPair
    /\ vReq.State = "S1" /\ vResp.State = "S1" /\ vResp.Code = ""
    /\ vResp.ErrorMsg = "access_denied" /\ vResp.ErrorDescription # ""
    /\ vOut.err.args = <<"access_denied", vResp.ErrorDescription>>

-----------------------------------------------------------------------------
(* Properties of the authorization code attempt *)

\* C19: StartServer reports success only for a listener that is listening,
\* until it closes, and has reported no error; once the listener has failed to start,
\* whenever that was, what StartServer returned is an error and no server.
C19_StartFailureIsReported ==
    startRet.returned =>
        /\ startRet.server => (listener \in {"listening", "closed"} /\ serverErrChan = <<>>)
        /\ listener = "failed" => (~startRet.server /\ startRet.err.kind # "")

\* the attempt has called the dependency with the given name
Called(name) == \E i \in 1..Len(calls) : calls[i] = name

\* C20: when StartServer returns an error, ExecuteAuthorizationCodeRequest
\* returns that error and has called nothing but StartServer: no URL was
\* built, no browser opened, no callback waited for, no response
\* validated. The browser is opened only as the third call, after a
\* StartServer that returned a server and after the URL was built.
C20_BrowserOnlyAfterStart ==
    /\ (startRet.returned /\ startRet.err.kind # "") =>
          /\ calls = <<"StartServer">>
          /\ aPc = "done"
          /\ authRet.returned /\ authRet.resp.nil /\ authRet.err = startRet.err
          /\ ~vOut.done
    /\ \A i \in 1..Len(calls) :
          calls[i] = "OpenURL" =>
              /\ i = 3
              /\ calls[1] = "StartServer" /\ calls[2] = "BuildAuthorizationURL"
              /\ startRet.returned /\ startRet.server /\ startRet.err.kind = ""
    /\ (authRet.returned /\ Called("BuildAuthorizationURL") /\ ~Called("OpenURL")) =>
          authRet.err.kind \in {"endpoint is required",
                                "failed to create authorization request values",
                                "failed to create authorization request URL"}

\* the startup window was exceeded without a cancellation, and the attempt
\* returned having called StartServer only
C20_Witness ==
    /\ startRet.returned /\ startRet.err.kind = "server startup timed out"
    /\ timers.timeout /\ ~ctxCancelled
    /\ aPc = "done" /\ authRet.returned
    /\ calls = <<"StartServer">>

-----------------------------------------------------------------------------
(* Properties of cancellation and of the outcome of the attempt *)

\* the attempt ends in this step because its context is cancelled: nothing
\* else can end the blocking step it is in
EndsByCancellation ==
    /\ ctxCancelled
    /\ aPc # "done" /\ aPc' = "done"
    /\ \/ aPc = "start" /\ callback # ""
       \/ aPc = "select" /\ serverErrChan = <<>> /\ ~timers.timeout
       \/ aPc = "wait_callback"

\* C21: an attempt whose context is cancelled while it is in a blocking
\* step returns an error that is or wraps the context's cancellation error;
\* in particular a cancellation during StartServer's wait for the listener
\* is not reported as a startup timeout.
C21_CancellationIsReported ==
    [][EndsByCancellation => WrapsCanceled(authRet'.err)]_vars

\* C22: when ExecuteAuthorizationCodeRequest returns after StartServer gave
\* it a server, the listener of that server is no longer listening, on
\* whichever path the attempt returned.
C22_ListenerReleasedOnReturn ==
    (authRet.returned /\ startRet.server) => listener # "listening"

\* how many times the attempt has called the dependency with the given name
Count(name) == Cardinality({i \in 1..Len(calls) : calls[i] = name})

\* C23: an attempt has ended exactly when it has returned; what it returns
\* is either a response or an error, never both and never neither;
\* WaitForCallback and ValidateResponse are each called at most once,
\* ValidateResponse only on a callback that WaitForCallback delivered, and the
\* callback the attempt holds is never replaced by a second one.
C23_ExactlyOneOutcome ==
    /\ [](/\ (aPc = "done") <=> authRet.returned
          /\ authRet.returned => ((~authRet.resp.nil) <=> (authRet.err = NoError))
          /\ Count("WaitForCallback") <= 1
          /\ Count("ValidateResponse") <= 1
          /\ Called("ValidateResponse") =>
                /\ Called("WaitForCallback")
                /\ vResp \in DeliveredCallbacks
                /\ vOut.done
          /\ ~authRet.resp.nil => (vOut.done /\ authRet.resp = vOut.resp))
    /\ [][vResp # NilCallbackResponse => vResp' = vResp]_vars

\* an attempt that went through every step once and returned a response
C23_Witness ==
    /\ calls = <<"StartServer", "BuildAuthorizationURL", "OpenURL", "WaitForCallback",
                 "ValidateResponse">>
    /\ authRet.returned /\ ~authRet.resp.nil /\ authRet.err = NoError
    /\ vResp \in DeliveredCallbacks

\* C24: when the wait for the callback ends without a callback, which
\* happens when the context is cancelled or its deadline passes,
\* WaitForCallback returns a nil response and an error wrapped as "callback
\* failed", and the attempt returns that error without validating anything.
C24_NoCallbackFailsTheWait ==
    (Called("WaitForCallback") /\ vResp = NilCallbackResponse) =>
        /\ ctxCancelled
        /\ authRet = AuthReturn(NilAuthorizationCodeResponse,
                                Errorf("callback failed", <<"context canceled">>))
        /\ aPc = "done"
        /\ ~Called("ValidateResponse")
        /\ vOut = NotValidated

\* the browser was opened, the context was cancelled before a callback
\* came, and the attempt returned the wrapped error
C24_Witness ==
    /\ calls = <<"StartServer", "BuildAuthorizationURL", "OpenURL", "WaitForCallback">>
    /\ vResp = NilCallbackResponse
    /\ ctxCancelled
    /\ authRet.returned /\ authRet.err.kind = "callback failed"

-----------------------------------------------------------------------------
(* Properties of the flows' preparation *)

\* crypto.NewDPoPProof has failed in this run
ProofFailed == \E i \in 1..Len(proofs) : ~proofs[i].ok

\* C25: when the generation of the DPoP proof fails, Run returns an error
\* that wraps the generator's error, and the run sends no request at all:
\* no device authorization request, no token request, no browser, no wait.
C25_ProofFailureSendsNothing ==
    ProofFailed =>
        /\ pc = "done"
        /\ runErr = RunResult("dpop proof", "ProofError", "", FALSE)
        /\ trace = <<>>
        /\ ~browser.opened
        /\ ~pollRet.returned
        /\ Len(proofs) = 1

\* a device flow with DPoP whose proof could not be made
C25_Witness ==
    /\ flow = "device" /\ cfg.DPoP
    /\ ProofFailed
    /\ pc = "done" /\ runErr.class = "ProofError"

-----------------------------------------------------------------------------
(* The flows that open a browser, together *)

InitBrowserFlows == Init \/ InitAuthCode

NextBrowserFlows == Next \/ NextAuthCode

SpecBrowserFlows == InitBrowserFlows /\ [][NextBrowserFlows]_vars

-----------------------------------------------------------------------------
(* Properties of StartServer's preconditions and of the authorization URL *)

\* the errors of StartServer's precondition checks
PreconditionErrors ==
    {"callback URL is required", "context canceled", "failed to create callback server"}

\* C27: StartServer called with an empty callback URL, with a context that
\* is already cancelled, or with a callback URL that cannot be parsed returns
\* an error and a nil server without starting the listener goroutine; after
\* such an error no listener ever exists in the attempt.
C27_PreconditionsStartNoListener ==
    /\ [][(aPc = "start" /\ aPc' # aPc /\
           (callback = "" \/ ctxCancelled \/ callback = "ht tp://invalid")) =>
              /\ startRet'.returned /\ ~startRet'.server
              /\ startRet'.err.kind \in PreconditionErrors
              /\ callback = "" => startRet'.err.kind = "callback URL is required"
              /\ (callback # "" /\ ctxCancelled) => startRet'.err.kind = "context canceled"
              /\ listener' = "none"]_vars
    /\ [](startRet.err.kind \in PreconditionErrors =>
              /\ listener = "none"
              /\ serverErrChan = <<>>
              /\ timers = NoTimers
              /\ ~startRet.server)

\* StartServer was entered with a cancelled context and a good callback URL
C27_Witness ==
    /\ callback = "http://localhost:9555/callback"
    /\ ctxCancelled
    /\ startRet = StartReturn(FALSE, Errorf("context canceled", <<>>))
    /\ listener = "none"

\* BuildAuthorizationURL has called CreateAuthorizationCodeRequestValues
ValuesCalled == Called("BuildAuthorizationURL") /\ authEndpoint # "" /\ ~vReq.nil

\* the attempt ended with the error of the values and without a browser
EndedOnValuesError ==
    /\ authURL = BuiltURL("", NoParams,
                          Errorf("failed to create authorization request values",
                                 <<"client_id is required">>))
    /\ aPc = "done"
    /\ authRet = AuthReturn(NilAuthorizationCodeResponse, authURL.err)
    /\ ~Called("OpenURL") /\ ~browser.opened

-----------------------------------------------------------------------------
(* Properties of the command line layer *)

\* the flag values the checks see: the refresh token read from standard input
\* stands for "-"
CheckedFlags ==
    IF fCmd = "token_refresh" /\ fArgs.RefreshToken = "-"
    THEN [fArgs EXCEPT !.RefreshToken = fArgs.Stdin.text]
    ELSE fArgs

\* the parser has reached its checks: the flags were parsed and, for "-", a
\* line was read from standard input
ChecksReached ==
    /\ fRet.returned
    /\ ~fArgs.parseError
    /\ (fCmd = "token_refresh" /\ fArgs.RefreshToken = "-") => fArgs.Stdin.scan = "line"

DPoPKeysMissing(a) ==
    a.DPoP /\ (a.DPoPPrivateKeyFile = "" \/ a.DPoPPublicKeyFile = "")

\* the message of the first check of the command that the flag values
\* violate, in the order of the command's list, or "" when there is none
ExpectedMessage ==
    LET a == CheckedFlags
    IN  IF a.IssuerURL = "" THEN "issuer is required"
        ELSE IF fCmd = "device" /\ a.ClientID = "" THEN "client-id is required"
        ELSE IF fCmd = "device" /\ a.Scope = "" THEN "scope is required"
        ELSE IF fCmd = "token_refresh" /\ a.RefreshToken = ""
        THEN "refresh token is required"
        ELSE IF DPoPKeysMissing(a) THEN DPoPKeysMessage
        ELSE ""

\* C29: the flag parsers of the device and token_refresh commands go through
\* their checks in the order of the list and return on the first violated
\* one: a nil runner, the check's message as output, and the error "invalid
\* arguments: <message>". A runner is returned only when no check is
\* violated, so that a runner with DPoP has both key files.
C29_FirstViolatedCheckWins ==
    /\ ChecksReached =>
          IF ExpectedMessage # ""
          THEN /\ fRet.runner.nil
               /\ fRet.output # "" /\ fRet.output = ExpectedMessage
               /\ fRet.err = Errorf("invalid arguments", <<ExpectedMessage>>)
          ELSE /\ ~fRet.runner.nil
               /\ fRet.err = NoError
               /\ fRet.runner.conf = CheckedFlags
    /\ (fRet.returned /\ ~fRet.runner.nil) =>
          /\ fRet.err = NoError
          /\ ChecksReached /\ ExpectedMessage = ""
          /\ fRet.runner.conf.DPoP =>
                /\ fRet.runner.conf.DPoPPrivateKeyFile # ""
                /\ fRet.runner.conf.DPoPPublicKeyFile # ""

\* a device command line without a client id and with DPoP but no key
\* files: two checks are violated and the first one is reported
C29_Witness ==
    /\ fCmd = "device" /\ fRet.returned
    /\ fArgs.IssuerURL # "" /\ fArgs.ClientID = "" /\ DPoPKeysMissing(fArgs)
    /\ fRet.err = Errorf("invalid arguments", <<"client-id is required">>)
    /\ fRet.runner.nil

\* the goroutine has logged that it received a signal
SignalReported == \E i \in 1..Len(rLog) : rLog[i].line = "received signal"

\* the goroutine has called cancel
WatcherCancelled == \E i \in 1..Len(rCancels) : rCancels[i] = "watcher"

\* C30: the goroutine that watches signalChan logs "received signal" and
\* calls cancel only when the process was sent an interrupt or a termination
\* signal; when the command ends without a signal, the deferred
\* signal.Stop and close make it do neither.
C30_WatcherActsOnlyOnSignal ==
    /\ SignalReported => rSignals # <<>>
    /\ WatcherCancelled => rSignals # <<>>

-----------------------------------------------------------------------------
(* Properties of the authorization URL *)

\* C31: the state in the authorization URL is the State of the request
\* whenever that field is not empty, so that ValidateResponse compares the
\* callback with the state that was sent; response_type is "code" and
\* client_id is the request's ClientID; all of it whatever the request's
\* custom arguments are.
C31_SentStateIsValidatedState ==
    (authURL.built /\ authURL.err = NoError) =>
        /\ vReq.State # "" => Only(authURL.query, "state", vReq.State)
        /\ Only(authURL.query, "response_type", "code")
        /\ Only(authURL.query, "client_id", vReq.ClientID)

-----------------------------------------------------------------------------
(* The polling loop under a fair scheduler *)

\* the device flow alone, for a confidential client without DPoP
InitPolling == Init /\ flow = "device" /\ cfg.ClientSecret = "sec" /\ ~cfg.DPoP

NextPolling ==
    \/ DeviceFlowSetup
    \/ ExecuteDeviceAuthorizationRequest
    \/ DeviceAuthorizationReturn
    \/ OpenBrowserAndStartPolling
    \/ PollSend
    \/ PollReturnOrSleep
    \/ SleepDone
    \/ Cancel

\* the goroutine that runs the loop is scheduled: a request that can be sent
\* is sent, PostForm returns (with a response or with the client's error)
\* and time.Sleep returns
SpecPolling ==
    /\ InitPolling
    /\ [][NextPolling]_vars
    /\ WF_vars(PollSend)
    /\ WF_vars(PollReturnOrSleep)
    /\ WF_vars(SleepDone)

\* ExecutePollingTokenRequest is running
Polling == flow = "device" /\ pc \in {"poll_send", "poll_await", "sleep"}

\* the bound on the attempts is reached with the loop about to go round again
AttemptsExhausted ==
    flow = "device" /\ pc = "poll_send" /\ TokenRequestsSent >= MaxAttempts

\* the response of the last token request of the trace
LastTokenResponse == trace[CHOOSE i \in TokenRequests : \A j \in TokenRequests : j <= i].resp

\* C32: ExecutePollingTokenRequest returns exactly at an attempt that yields
\* a 2xx response, a fatal classified result or a transport error: a step
\* that returns hands out such an outcome, a step that answers an attempt
\* with authorization_pending or slow_down goes to sleep and round again
\* however many attempts were made, and a loop that is running goes on until
\* it has returned (or the bound on the attempts of the model is reached).
C32_PollingEndsOnlyOnFinalAnswer ==
    /\ [][(~pollRet.returned /\ pollRet'.returned) =>
            /\ ~Transient(pollRet'.resp)
            /\ pollRet'.class \in {"Success", "TransportError", "JSONParsingError",
                                   "OAuthProtocolError", "HTTPFailure"}
            /\ pc' = "done"]_vars
    /\ [][(pc = "poll_await" /\ pc' # "poll_await") =>
            IF Transient(LastTokenResponse')
            THEN pc' = "sleep" /\ ~pollRet'.returned
            ELSE pc' = "done" /\ pollRet'.returned /\ pollRet'.resp = LastTokenResponse']_vars
    /\ [](Polling => ~pollRet.returned)
    /\ (Polling ~> (pollRet.returned \/ AttemptsExhausted))

\* the loop returned success after MaxAttempts - 1 transient answers
C32_Witness ==
    /\ pollRet.returned /\ pollRet.class = "Success"
    /\ TokenRequestsSent = MaxAttempts
    /\ Cardinality(Waits(trace)) = MaxAttempts - 1

-----------------------------------------------------------------------------
(* The frame of ExecuteTokenRequest *)

\* the keys ExecuteTokenRequest writes
CredentialKeys == {"grant_type", "client_id", "client_secret"}

\* C33: a call of ExecuteTokenRequest leaves GrantType, ClientID,
\* ClientSecret and AuthMethod of the request as they were, keeps every
\* parameter it found under another key than grant_type, client_id and
\* client_secret, adds no other key than these three, and, when the request
\* was executed before, leaves the mapping as it was and sends the
\* parameters of the first call again.
C33_OnlyCredentialsAdded ==
    [][(built # NoTokenRequest /\ sent' # sent) =>
          /\ \A f \in {"GrantType", "ClientID", "ClientSecret", "AuthMethod"} :
                built'[f] = built[f]
          /\ \A k \in (DOMAIN built.Params) \ CredentialKeys :
                k \in DOMAIN built'.Params /\ built'.Params[k] = built.Params[k]
          /\ (DOMAIN built'.Params) \ (DOMAIN built.Params) \subseteq CredentialKeys
          /\ GrantKeys \cap CredentialKeys = {}
          /\ sent'[Len(sent')].params = built'.Params
          /\ Len(sent) >= 1 =>
                /\ built'.Params = built.Params
                /\ sent'[Len(sent')].params = sent[1].params]_vars

\* a device code request of a Post client with a secret was executed twice:
\* both calls sent the same parameters, the device code among them
C33_Witness ==
    /\ builder = "device_code" /\ Len(sent) = 2
    /\ bInput.AuthMethod = "client_secret_post" /\ bInput.ClientSecret = "sec"
    /\ bInput.DeviceCode = "dc"
    /\ sent[1].params = sent[2].params
    /\ Only(sent[2].params, "device_code", "dc")
    /\ Only(sent[2].params, "client_secret", "sec")

-----------------------------------------------------------------------------
(* The loop's classification and ParseTokenResponse *)

\* the loop returned a response of the server
ReturnedResponse == flow = "device" /\ pollRet.returned /\ pollRet.resp.transport = "ok"

\* C34: a non-2xx response the loop returns with has, as the loop's class
\* and error code, the variant and the error type ParseTokenResponse yields
\* for it; a 2xx response leaves the loop as success whatever its body is,
\* and Run ends with what ParseTokenResponse yields for it, a JSON parsing
\* error of the stage "token" when the body cannot be decoded.
C34_LoopClassifiesAsParseTokenResponse ==
    ReturnedResponse =>
        LET resp == pollRet.resp
            parsed == ParseTokenResponse(resp)
        IN  IF Non2xx(resp)
            THEN /\ pollRet.class = parsed.class
                 /\ pollRet.class \in {"JSONParsingError", "OAuthProtocolError", "HTTPFailure"}
                 /\ pollRet.code = parsed.code
                 /\ runErr.stage = "polling token request" /\ runErr.class = parsed.class
            ELSE /\ pollRet.class = "Success"
                 /\ IF parsed.class = "Success"
                    THEN runErr.class = "ok"
                    ELSE /\ NotAMapping(resp.body)
                         /\ runErr.stage = "token" /\ runErr.class = "JSONParsingError"

\* the loop returned a 200 response whose body is no JSON as success, and
\* Run ended with the JSON parsing error of the token stage
C34_Witness ==
    /\ ReturnedResponse
    /\ pollRet.resp.status = 200 /\ pollRet.resp.body = JText
    /\ pollRet.class = "Success"
    /\ runErr.stage = "token" /\ runErr.class = "JSONParsingError"

-----------------------------------------------------------------------------
(* The device flow's order of exchanges *)

\* positions of the device-authorization requests in the trace
DeviceAuthorizationRequests == RequestsTo(trace, DeviceAuthorizationEndpoint)

\* the device-authorization exchange completed and was classified as success
DeviceGranted ==
    \E d \in DeviceAuthorizationRequests :
        /\ trace[d].resp.transport = "ok"
        /\ ParseDeviceAuthorizationResponse(trace[d].resp).r.class = "Success"

\* the device-authorization exchange ended in a transport error or in an
\* error class
DeviceRefused ==
    \E d \in DeviceAuthorizationRequests :
        \/ trace[d].resp.transport \notin {"ok", "pending"}
        \/ /\ trace[d].resp.transport = "ok"
           /\ ParseDeviceAuthorizationResponse(trace[d].resp).r.class # "Success"

\* C35: in the device flow a token request, an opened browser or a polling
\* loop that has started come only after the single device-authorization
\* exchange, completed and classified as success; when that exchange ends in
\* a transport error or an error class, Run has ended with an error of the
\* device-authorization stage, with no browser opened and no token request;
\* and every token request carries the device_code of that response.
C35_TokenRequestsOnlyAfterGrant ==
    flow = "device" =>
        /\ (TokenRequests # {} \/ browser.opened \/ Polling \/ pollRet.returned) =>
              /\ DeviceGranted
              /\ Cardinality(DeviceAuthorizationRequests) = 1
              /\ \A d \in DeviceAuthorizationRequests : \A i \in TokenRequests : d < i
        /\ DeviceRefused =>
              /\ pc = "done"
              /\ runErr.stage \in {"device authorization request", "device authorization"}
              /\ runErr.class \notin {"running", "ok", "Success"}
              /\ ~browser.opened /\ TokenRequests = {} /\ ~pollRet.returned
        /\ \A d \in DeviceAuthorizationRequests : \A i \in TokenRequests :
              Only(trace[i].params, "device_code",
                   ParseDeviceAuthorizationResponse(trace[d].resp).v.DeviceCode)

\* two token requests were sent after a grant without device_code member:
\* both carry the empty device code
C35_Witness ==
    /\ flow = "device" /\ DeviceGranted
    /\ Cardinality(TokenRequests) >= 2
    /\ devResp.DeviceCode = ""
    /\ \A i \in TokenRequests : Only(trace[i].params, "device_code", "")

-----------------------------------------------------------------------------
(* RunCommand as a whole *)

\* the names of the table of commands
CommandNames ==
    {"authorization_code", "client_credentials", "introspect", "token_refresh",
     "token_exchange", "version", "help"}

\* names given on the command line: those of the table and two it lacks
GivenNames == CommandNames \cup {"device", "bogus"}

\* what a Configure function comes back with: a runner, flag.ErrHelp,
\* another error
ConfigureOutcomes == {"nil", "help", "error"}

\* runner, output, err of a Configure call with the given outcome
ConfigureReturn(outcome) ==
    CASE outcome = "nil" -> FlagsReturn(Runner(NoFlags), "", NoError)
      [] outcome = "help" -> FlagsReturn(NilRunner, "usage", Errorf("flag: help requested", <<>>))
      [] OTHER -> FlagsReturn(NilRunner, "", Errorf("invalid arguments", <<>>))

InitCommand ==
    /\ fCmd \in GivenNames
    /\ fArgs = NoFlags
    /\ fRet = NotParsedFlags
    /\ rPc = "start"
    /\ signalChan = NoChannel
    /\ watcher = NoWatcher
    /\ rLog = <<>>
    /\ rCancels = <<>>
    /\ rExit = NotExited
    /\ rSignals = <<>>
    /\ rSteps = <<>>
    /\ IdleFlow
    /\ IdleClassify
    /\ IdleURL
    /\ IdleRequest
    /\ IdleValidate
    /\ IdleAuthCode

\* RunCommand looks the name up: an unknown name, help and version return
\* at once
LookupCommand ==
    /\ rPc = "start"
    /\ IF fCmd \notin CommandNames
       THEN /\ rLog' = Append(rLog, [line |-> "command not found", sig |-> ""])
            /\ rExit' = [rExit EXCEPT !.code = ExitError]
            /\ rPc' = "returned"
       ELSE IF fCmd \in {"help", "version"}
       THEN /\ rLog' = Append(rLog, [line |-> fCmd, sig |-> ""])
            /\ rExit' = [rExit EXCEPT !.code = ExitOK]
            /\ rPc' = "returned"
       ELSE /\ rLog' = rLog
            /\ rExit' = rExit
            /\ rPc' = "configure"
    /\ UNCHANGED <<flowVars, pureVars, reqVars, validateVars, authVars, flagVars,
                   signalChan, watcher, rCancels, rSignals, rSteps>>

\* cmd.Configure returns: flag.ErrHelp and any other error end RunCommand
ConfigureCommand ==
    /\ rPc = "configure"
    /\ \E outcome \in ConfigureOutcomes :
        /\ fRet' = ConfigureReturn(outcome)
        /\ rSteps' = Append(rSteps, Step("Configure", outcome))
        /\ CASE outcome = "help" ->
                  /\ rLog' = Append(rLog, [line |-> "usage", sig |-> ""])
                  /\ rExit' = [rExit EXCEPT !.code = ExitHelp]
                  /\ rPc' = "returned"
             [] outcome = "error" ->
                  /\ rLog' = Append(rLog, [line |-> "error", sig |-> ""])
                  /\ rExit' = [rExit EXCEPT !.code = ExitError]
                  /\ rPc' = "returned"
             [] OTHER ->
                  /\ rLog' = rLog
                  /\ rExit' = rExit
                  /\ rPc' = "setup"
    /\ UNCHANGED <<flowVars, pureVars, reqVars, validateVars, authVars, fCmd, fArgs,
                   signalChan, watcher, rCancels, rSignals>>

\* the channel is made and registered, the deferred calls are registered,
\* the context is made and the goroutine is started
StartWatcher ==
    /\ rPc = "setup"
    /\ signalChan' = NewChannel
    /\ watcher' = [pc |-> "receive", sig |-> ""]
    /\ rPc' = "run"
    /\ UNCHANGED <<flowVars, pureVars, reqVars, validateVars, authVars, flagVars,
                   rLog, rCancels, rExit, rSignals, rSteps>>

\* a return before the deferred calls were registered runs none of them
NextCommand ==
    \/ LookupCommand
    \/ ConfigureCommand
    \/ StartWatcher
    \/ SignalDelivered
    \/ WatcherReceives
    \/ WatcherLogs
    \/ WatcherCancels
    \/ CommandReturns
    \/ DeferredCancel
    \/ DeferredStop
    \/ DeferredClose
    \/ ProcessExits

SpecCommand == InitCommand /\ [][NextCommand]_vars

-----------------------------------------------------------------------------
(* Properties of RunCommand *)

\* RunCommand has fixed its exit code and the process has not ended
Returning == rPc \in {"defer_cancel", "defer_stop", "defer_close", "returned"}

\* the positions of the calls of the given function
StepsCalling(call) == {i \in 1..Len(rSteps) : rSteps[i].call = call}

Logged(line) == \E i \in 1..Len(rLog) : rLog[i].line = line

\* C36: once command.Run has returned, the exit code is ExitOK for nil and
\* for an error wrapping context.Canceled, which is logged as "operation
\* cancelled", and ExitError for context.DeadlineExceeded and for any other
\* error; Run is called at most once, after Configure and prepareOIDCConfig
\* both returned nil; a failure of either gives ExitError without a call of
\* Run; a name the table lacks gives ExitError and no call at all.
C36_ExitCodeOfOutcome ==
    /\ \A i \in StepsCalling("Run") :
          /\ i = 3 /\ Len(rSteps) = 3
          /\ rSteps[1] = Step("Configure", "nil")
          /\ rSteps[2] = Step("prepareOIDCConfig", "nil")
          /\ fCmd \in CommandNames \ {"help", "version"}
    /\ (Returning /\ StepsCalling("Run") # {}) =>
          LET err == rSteps[3].err
          IN  /\ err = "nil" => rExit.code = ExitOK
              /\ err = "canceled" => rExit.code = ExitOK /\ Logged("operation cancelled")
              /\ err = "deadline exceeded" => rExit.code = ExitError
              /\ err = "error" => rExit.code = ExitError
              /\ err \in {"nil", "canceled", "deadline exceeded", "error"}
    /\ (Returning /\ rSteps # <<>> /\ StepsCalling("Run") = {}) =>
          /\ rSteps[Len(rSteps)].err # "nil"
          /\ rSteps[Len(rSteps)].err = "error" => rExit.code = ExitError
    /\ fCmd \notin CommandNames =>
          /\ rSteps = <<>> /\ watcher = NoWatcher
          /\ Returning => rExit.code = ExitError /\ Logged("command not found")

\* command.Run returned an error wrapping context.Canceled after the
\* goroutine cancelled the context: ExitOK
C36_Witness ==
    /\ rPc = "returned"
    /\ StepsCalling("Run") # {} /\ rSteps[3].err = "canceled"
    /\ rExit.code = ExitOK
    /\ Logged("received signal") /\ Logged("operation cancelled")

-----------------------------------------------------------------------------
(* CreateAuthorizationCodeRequestURL *)

\* A string is the sequence of its pieces: each character that has a meaning
\* in a URL is a piece, and so is each run of other characters.

\* the position of the first piece t of s at or after i, or 0
RECURSIVE FirstIndex(_, _, _)
FirstIndex(s, t, i) ==
    IF i > Len(s) THEN 0
    ELSE IF s[i] = t THEN i
    ELSE FirstIndex(s, t, i + 1)

\* strings.Cut(s, t): what is before the first t, and what is after it
CutBefore(s, t) ==
    IF FirstIndex(s, t, 1) = 0 THEN s ELSE SubSeq(s, 1, FirstIndex(s, t, 1) - 1)

CutAfter(s, t) ==
    IF FirstIndex(s, t, 1) = 0 THEN <<>> ELSE SubSeq(s, FirstIndex(s, t, 1) + 1, Len(s))

HasPrefix(s, prefix) == Len(s) >= Len(prefix) /\ SubSeq(s, 1, Len(prefix)) = prefix

\* the pieces QueryEscape replaces, each with its replacement
EscapeTable ==
    << <<" ", "+">>, <<":", "%3A">>, <<"/", "%2F">>, <<"&", "%26">>, <<"=", "%3D">>,
       <<"?", "%3F">>, <<"#", "%23">>, <<"+", "%2B">> >>

EscapePiece(t) ==
    IF \E i \in 1..Len(EscapeTable) : EscapeTable[i][1] = t
    THEN EscapeTable[CHOOSE i \in 1..Len(EscapeTable) : EscapeTable[i][1] = t][2]
    ELSE t

UnescapePiece(t) ==
    IF \E i \in 1..Len(EscapeTable) : EscapeTable[i][2] = t
    THEN EscapeTable[CHOOSE i \in 1..Len(EscapeTable) : EscapeTable[i][2] = t][1]
    ELSE t

\* url.QueryEscape and url.QueryUnescape
QueryEscape(s) == [i \in 1..Len(s) |-> EscapePiece(s[i])]

QueryUnescape(s) == [i \in 1..Len(s) |-> UnescapePiece(s[i])]

\* the keys of the values in the order of sort.Strings
SortedKeys ==
    <<"client_id", "redirect_uri", "resource", "response_type", "scope", "state">>

\* "key=value" for the values of one key from the i-th on, each followed by
\* "&"
RECURSIVE EncodeKey(_, _, _)
EncodeKey(k, vs, i) ==
    IF i > Len(vs) THEN <<>>
    ELSE <<k, "=">> \o QueryEscape(vs[i]) \o <<"&">> \o EncodeKey(k, vs, i + 1)

RECURSIVE EncodeFrom(_, _)
EncodeFrom(m, i) ==
    IF i > Len(SortedKeys) THEN <<>>
    ELSE (IF SortedKeys[i] \in DOMAIN m THEN EncodeKey(SortedKeys[i], m[SortedKeys[i]], 1)
          ELSE <<>>) \o EncodeFrom(m, i + 1)

\* url.Values.Encode: the pairs sorted by key, escaped, joined by "&"
Encode(m) ==
    IF EncodeFrom(m, 1) = <<>> THEN <<>>
    ELSE SubSeq(EncodeFrom(m, 1), 1, Len(EncodeFrom(m, 1)) - 1)

\* url.ParseQuery: the pairs between the "&", each cut at its first "=" and
\* unescaped, the values of a key in their order
RECURSIVE ParseQuery(_, _)
ParseQuery(q, m) ==
    IF q = <<>> THEN m
    ELSE LET pair == CutBefore(q, "&")
             key == CutBefore(pair, "=")
             value == QueryUnescape(CutAfter(pair, "="))
         IN  IF key = <<>> THEN ParseQuery(CutAfter(q, "&"), m)
             ELSE ParseQuery(CutAfter(q, "&"), ParamAdd(m, key[1], value))

\* pieces that are digits only: no scheme starts with one
Numbers == {"8443", "9555"}

\* pieces a scheme cannot hold
NoSchemePieces == {":", "/", "?", "#", "&", "=", " ", "%3A", "%2F"}

NoURL ==
    [ok |-> FALSE, Scheme |-> "", Opaque |-> <<>>, Host |-> <<>>, Path |-> <<>>,
     ForceQuery |-> FALSE, RawQuery |-> <<>>, Fragment |-> <<>>]

\* url.Parse: the fragment is cut off, then the scheme, the query, the
\* authority and the path; ok is false for the errors "missing protocol
\* scheme", "first path segment in URL cannot contain colon" and "invalid
\* character in host name"
ParseURL(raw) ==
    LET fragment == CutAfter(raw, "#")
        u == CutBefore(raw, "#")
        missingScheme == u # <<>> /\ u[1] = ":"
        hasScheme == Len(u) >= 2 /\ u[2] = ":" /\ u[1] \notin NoSchemePieces \cup Numbers
        scheme == IF hasScheme THEN u[1] ELSE ""
        afterScheme == IF hasScheme THEN SubSeq(u, 3, Len(u)) ELSE u
        forceQuery == /\ afterScheme # <<>> /\ afterScheme[Len(afterScheme)] = "?"
                      /\ FirstIndex(afterScheme, "?", 1) = Len(afterScheme)
        rest == CutBefore(afterScheme, "?")
        rawQuery == CutAfter(afterScheme, "?")
        rooted == rest # <<>> /\ rest[1] = "/"
        colonFirst == ~rooted /\ scheme = "" /\ FirstIndex(CutBefore(rest, "/"), ":", 1) # 0
        hasAuthority == /\ HasPrefix(rest, <<"/", "/">>)
                        /\ scheme # "" \/ ~HasPrefix(rest, <<"/", "/", "/">>)
        afterSlashes == SubSeq(rest, 3, Len(rest))
        host == IF hasAuthority THEN CutBefore(afterSlashes, "/") ELSE <<>>
        path == IF ~hasAuthority THEN rest
                ELSE SubSeq(afterSlashes, Len(host) + 1, Len(afterSlashes))
        badHost == FirstIndex(host, " ", 1) # 0
    IN  IF missingScheme \/ colonFirst THEN NoURL
        ELSE IF ~rooted /\ scheme # ""
        THEN [NoURL EXCEPT !.ok = TRUE, !.Scheme = scheme, !.Opaque = rest,
                           !.ForceQuery = forceQuery, !.RawQuery = rawQuery,
                           !.Fragment = fragment]
        ELSE IF badHost THEN NoURL
        ELSE [ok |-> TRUE, Scheme |-> scheme, Opaque |-> <<>>, Host |-> host,
              Path |-> path, ForceQuery |-> forceQuery, RawQuery |-> rawQuery,
              Fragment |-> fragment]

\* URL.String
URLString(u) ==
    (IF u.Scheme # "" THEN <<u.Scheme, ":">> ELSE <<>>) \o
    (IF u.Opaque # <<>> THEN u.Opaque
     ELSE (IF (u.Scheme # "" \/ u.Host # <<>>) /\ (u.Host # <<>> \/ u.Path # <<>>)
           THEN <<"/", "/">> \o u.Host ELSE <<>>) \o
          (IF u.Path # <<>> /\ u.Path[1] # "/" /\ u.Host # <<>> THEN <<"/">> ELSE <<>>) \o
          u.Path) \o
    (IF u.ForceQuery \/ u.RawQuery # <<>> THEN <<"?">> \o u.RawQuery ELSE <<>>) \o
    (IF u.Fragment # <<>> THEN <<"#">> \o u.Fragment ELSE <<>>)

URLReturn(url, err) == [returned |-> TRUE, url |-> url, err |-> err]

\* faulty variant: the values are appended to the query of the endpoint
CreateAuthorizationCodeRequestURLKeepsQuery(endpoint, values) ==
    IF endpoint = <<>> THEN URLReturn(<<>>, Errorf("endpoint is required", <<>>))
    ELSE IF values.nil THEN URLReturn(<<>>, Errorf("values cannot be nil", <<>>))
    ELSE IF ~ParseURL(endpoint).ok
    THEN URLReturn(<<>>, Errorf("failed to parse endpoint URL", <<>>))
    ELSE LET u == ParseURL(endpoint)
             q == IF u.RawQuery = <<>> \/ Encode(values.m) = <<>>
                  THEN u.RawQuery \o Encode(values.m)
                  ELSE u.RawQuery \o <<"&">> \o Encode(values.m)
         IN  URLReturn(URLString([u EXCEPT !.RawQuery = q]), NoError)

CreateAuthorizationCodeRequestURL(endpoint, values) ==
    IF endpoint = <<>> THEN URLReturn(<<>>, Errorf("endpoint is required", <<>>))
    ELSE IF values.nil THEN URLReturn(<<>>, Errorf("values cannot be nil", <<>>))
    ELSE IF ~ParseURL(endpoint).ok
    THEN URLReturn(<<>>, Errorf("failed to parse endpoint URL", <<>>))
    ELSE URLReturn(URLString([ParseURL(endpoint) EXCEPT !.RawQuery = Encode(values.m)]),
                   NoError)

Authority == <<"https", ":", "/", "/", "as.example">>

\* endpoints: with and without path, query, fragment and port, a bare "?",
\* a path alone, an opaque one, the empty one and three url.Parse rejects
URLEndpoints ==
    {Authority \o <<"/", "authorize">> \o q \o f :
        q \in {<<>>, <<"?">>, <<"?", "existing", "=", "param">>,
               <<"?", "a", "=", "1", "&", "state", "=", "old">>},
        f \in {<<>>, <<"#", "frag">>}} \cup
    {<<>>,
     Authority,
     Authority \o <<":", "8443", "/", "authorize">>,
     <<"/", "authorize", "?", "existing", "=", "param">>,
     <<"urn", ":", "authorize">>,
     <<":", "/", "/", "invalid-url">>,
     <<"ht", " ", "tp", ":", "/", "/", "invalid">>,
     <<"https", ":", "/", "/", "as", " ", "example", "/", "authorize">>}

Values(m) == [nil |-> FALSE, m |-> m]

\* values: none, empty, those of the tests, and values holding every piece
\* that has a meaning in a URL; one key with two values
URLValues ==
    {NilValues,
     Values(NoParams),
     Values([response_type |-> << <<"code">> >>]),
     Values([response_type |-> << <<"code">> >>, client_id |-> << <<"test-client">> >>,
             scope |-> << <<"openid", " ", "profile">> >>]),
     Values([client_id |-> << <<"test-client">> >>,
             redirect_uri |-> << <<"http", ":", "/", "/", "localhost", ":", "9555",
                                   "/", "cb", "?", "x", "=", "1">> >>]),
     Values([state |-> << <<"a", "&", "b", "=", "c", "#", "d", "+", "e">> >>,
             client_id |-> << <<"test-client">> >>]),
     Values([resource |-> << <<"r1">>, <<"r2">> >>, client_id |-> << <<"test-client">> >>])}

InitURL ==
    /\ uEndpoint \in URLEndpoints
    /\ uValues \in URLValues
    /\ uRet = NoURLReturn
    /\ IdleFlow
    /\ IdleClassify
    /\ IdleRequest
    /\ IdleValidate
    /\ IdleAuthCode
    /\ IdleCommand

CallCreateAuthorizationCodeRequestURL ==
    /\ uEndpoint \in URLEndpoints /\ uValues \in URLValues /\ ~uRet.returned
    /\ pc = "idle" /\ rPc = "idle" /\ aPc = "idle"
    /\ uRet' = CreateAuthorizationCodeRequestURL(uEndpoint, uValues)
    /\ UNCHANGED <<flowVars, parseVars, uEndpoint, uValues, sideVars>>

NextURL == CallCreateAuthorizationCodeRequestURL

SpecURL == InitURL /\ [][NextURL]_vars

-----------------------------------------------------------------------------
(* Properties of CreateAuthorizationCodeRequestURL *)

\* the call has no URL to give
URLRefused(endpoint, values) == endpoint = <<>> \/ values.nil \/ ~ParseURL(endpoint).ok

\* C37: for an empty endpoint, nil values or an endpoint url.Parse rejects,
\* CreateAuthorizationCodeRequestURL returns an error and the empty string;
\* otherwise it returns no error and a URL that parses, with the scheme, the
\* host and the path of the endpoint, and with a query that is the encoding
\* of the values and decodes to the values, whatever query the endpoint had.
C37_QueryIsEncodedValues ==
    uRet.returned =>
        IF URLRefused(uEndpoint, uValues)
        THEN uRet.err # NoError /\ uRet.url = <<>>
        ELSE LET e == ParseURL(uEndpoint)
                 g == ParseURL(uRet.url)
             IN  /\ uRet.err = NoError
                 /\ g.ok
                 /\ g.Scheme = e.Scheme /\ g.Host = e.Host /\ g.Path = e.Path
                 /\ g.Opaque = e.Opaque
                 /\ g.RawQuery = Encode(uValues.m)
                 /\ ParseQuery(g.RawQuery, NoParams) = uValues.m

\* the URL was made from an endpoint with a query of its own, state among
\* its keys, and values with a state that holds "&", "=", "#" and "+"
C37_Witness ==
    /\ uRet.returned /\ uRet.err = NoError
    /\ ParseURL(uEndpoint).RawQuery = <<"a", "=", "1", "&", "state", "=", "old">>
    /\ ParseURL(uEndpoint).Fragment = <<>>
    /\ "state" \in DOMAIN uValues.m
    /\ uRet.url = Authority \o <<"/", "authorize", "?", "client_id", "=", "test-client",
                                 "&", "state", "=", "a", "%26", "b", "%3D", "c", "%23",
                                 "d", "%2B", "e">>
====
